---- MODULE Spec2Model ----
(***************************************************************************)
(* Verification model of the data-sync and queue-orchestration engine of   *)
(* true-random-shuffle: the authenticated request executor (makeApiCall),  *)
(* the token refresh (refreshAccessToken) and the bulk collection fetcher  *)
(* (getPlaylistTracks / getUserSavedTracks) of src/utils/spotify.ts.       *)
(***************************************************************************)
EXTENDS Integers, Sequences, FiniteSets, TLC

VARIABLES
  store,        \* AsyncStorage: the four persisted credential keys
  now,          \* Date.now(), in ms
  issued,       \* number of access tokens the token endpoint has issued
  calls,        \* number of makeApiCall invocations started
  apiPc,        \* position of the makeApiCall invocation
  apiArgs,      \* url / method / body of the invocation
  accessToken,  \* the local const accessToken of makeApiCall (line 233)
  attempt,      \* 1 = first request, 2 = request retried after a 401
  refreshFor,   \* which call site of refreshAccessToken is running
  apiTrace,     \* what the invocation did so far (requests, refreshes, responses)
  apiResult,    \* what the invocation returned or threw
  fetchKind,    \* "playlist" (getPlaylistTracks) or "saved" (getUserSavedTracks)
  remote,       \* the remote collection: track ids, 0 = a null track
  fetchPc,      \* position of the bulk fetch
  tracks,       \* the accumulator `tracks`
  remainingPages, \* the local remainingPages
  winStart,     \* the loop variable i of the window loop
  batch,        \* batchPromises: one entry per request of the current window
  completion,   \* the order in which the requests of the window completed
  pageLog,      \* every page request issued so far: offset, window, state
  sawLimit,     \* a page request of this fetch was answered with 429
  fetchResult,  \* what the bulk fetch returned or threw
  qTracks,      \* batchQueueTracks: trackUris
  qPc,          \* position of batchQueueTracks
  qi,           \* the loop variable i (0-based)
  retryCount,   \* the local retryCount
  success,      \* the local success
  completed,    \* the local completed
  qLog,         \* what batchQueueTracks did: submissions, outcomes, waits, progress
  playlist,     \* mutationFn: variables.playlist
  runPc,        \* position of mutationFn
  runTracks,    \* the local tracks
  freshShuffled,    \* the local freshShuffled
  ensuredDeviceId,  \* the local ensuredDeviceId
  runLog,       \* the calls mutationFn made and the events it handed to onProgressUpdate
  runResult,    \* what the mutation settled with
  shInput,      \* trueRandomShuffle: what the array of the caller held at the call
  shArray,      \* trueRandomShuffle: the array of the caller
  shResult,     \* trueRandomShuffle: the array it returned
  shSteps,      \* trueRandomShuffle: the index j it drew at each step i
  shPc,         \* whether trueRandomShuffle has been called
  homePc,       \* HomeTab: position of each call of handlePlaylistSelect and of its run
  homePlaylist, \* HomeTab: the playlist of each call
  homeSent,     \* HomeTab: how many player requests the run of each call has issued
  homeWire,     \* HomeTab: the player requests in the order they were issued
  currentMutation,  \* useMutation: the mutation the observer follows (0: none)
  isQueueing,   \* HomeTab: queueStatus.isQueueing
  alertModal,   \* HomeTab: the alertModal state
  authPc,       \* authenticate / exchangeCodeForToken: position
  authVariant,  \* which exchangeCodeForToken runs: of spotify.ts or of the redirect screen
  authData,     \* exchangeCodeForToken: the local data
  authLog,      \* verifiers generated, token requests sent, values returned
  authSnap,     \* the credential store when exchangeCodeForToken was entered
  authCalls,    \* number of sign-in attempts so far
  logoutPc,     \* logout: position
  logoutPlan,   \* logout: the removals the store has still to perform
  logoutBefore, \* the credential store when logout was called
  observed,     \* what a reader of the store saw while logout ran
  provUser,     \* SpotifyProvider: the id of user, "" for none
  provPlaylists,    \* SpotifyProvider: playlists, as fetched
  savedData,    \* useSpotifySavedTracks: data
  savedError,   \* useSpotifySavedTracks: the message of error, <<>> for none
  needsReauth,  \* SpotifyProvider: the needsReauth state
  scopeDenied,  \* the saved-tracks endpoint has refused for want of scope, and
                \* neither a login nor a non-empty result has come since
  provContext,  \* the playlistUri of the run started for the card pressed last
  provSteps,    \* number of steps of the provider so far
  conPc,        \* concurrent makeApiCall invocations: the position of each
  conSite,      \* the call of refreshAccessToken each of them is in or was in last
  conSent,      \* the refresh token in the token request each of them awaits, 0 for none
  conStale,     \* the invocations whose token request was in flight when logout ran
  conLogout     \* logout has completed

apiVars == <<store, now, issued, calls, apiPc, apiArgs, accessToken, attempt,
             refreshFor, apiTrace, apiResult>>

fetchVars == <<fetchKind, remote, fetchPc, tracks, remainingPages, winStart,
               batch, completion, pageLog, sawLimit, fetchResult>>

queueVars == <<qTracks, qPc, qi, retryCount, success, completed, qLog>>

runVars == <<playlist, runPc, runTracks, freshShuffled, ensuredDeviceId, runLog, runResult>>

shuffleFnVars == <<shInput, shArray, shResult, shSteps, shPc>>

homeVars == <<homePc, homePlaylist, homeSent, homeWire, currentMutation,
              isQueueing, alertModal>>

authVars == <<authPc, authVariant, authData, authLog, authSnap, authCalls,
              logoutPc, logoutPlan, logoutBefore, observed>>

provVars == <<provUser, provPlaylists, savedData, savedError, needsReauth,
              scopeDenied, provContext, provSteps>>

concVars == <<conPc, conSite, conSent, conStale, conLogout>>

auxVars == <<shuffleFnVars, homeVars, authVars, provVars, concVars>>

pipelineVars == <<queueVars, runVars, auxVars>>

vars == <<store, now, issued, calls, apiPc, apiArgs, accessToken, attempt,
          refreshFor, apiTrace, apiResult,
          fetchKind, remote, fetchPc, tracks, remainingPages, winStart,
          batch, completion, pageLog, sawLimit, fetchResult,
          qTracks, qPc, qi, retryCount, success, completed, qLog,
          playlist, runPc, runTracks, freshShuffled, ensuredDeviceId, runLog, runResult,
          shInput, shArray, shResult, shSteps, shPc,
          homePc, homePlaylist, homeSent, homeWire, currentMutation,
          isQueueing, alertModal,
          authPc, authVariant, authData, authLog, authSnap, authCalls,
          logoutPc, logoutPlan, logoutBefore, observed,
          provUser, provPlaylists, savedData, savedError, needsReauth,
          scopeDenied, provContext, provSteps,
          conPc, conSite, conSent, conStale, conLogout>>

(***************************************************************************)
(* Bounds of the model.                                                    *)
(***************************************************************************)
MaxCalls == 2

MaxTicks == 1

(***************************************************************************)
(* Strings.  An error message is a sequence of tokens, and                 *)
(* String.prototype.includes is a search for a contiguous run of tokens.   *)
(***************************************************************************)
Includes(msg, pat) ==
  \E i \in 1..(Len(msg) - Len(pat) + 1) : SubSeq(msg, i, i + Len(pat) - 1) = pat

RateLimitPattern == <<"Rate", "limit", "exceeded">>

ScopePattern == <<"Insufficient", "client", "scope">>

NoTokenMessage == <<"No", "access", "token", "available">>

NetworkErrorMessage == <<"Network", "request", "failed">>

JsonErrorMessage == <<"JSON", "Parse", "error">>

RateLimitMessage(retryAfter) ==
  <<"Rate", "limit", "exceeded", "(", "429", ")", ".", "Retry", "after", ":",
    IF retryAfter = "" THEN "unknown" ELSE retryAfter, "seconds">>

ScopeMessage(serverMsg) == <<"Insufficient", "client", "scope", ":">> \o serverMsg

ForbiddenMessage(serverMsg) ==
  <<"Forbidden", "(", "403", ")", ":">>
    \o (IF serverMsg = <<>> THEN <<"Access", "denied">> ELSE serverMsg)

(***************************************************************************)
(* HTTP responses.  status 0 stands for a fetch() that rejects (network    *)
(* error); json is "content-type includes application/json"; bodyOk is     *)
(* "response.json() resolves"; serverMsg is error.message of the body.     *)
(***************************************************************************)
Resp(s, j, b, m, ra) ==
  [status |-> s, json |-> j, bodyOk |-> b, serverMsg |-> m, retryAfter |-> ra]

Responses ==
  { Resp(204, FALSE, FALSE, <<>>, ""),
    Resp(200, TRUE, TRUE, <<>>, ""),
    Resp(200, FALSE, FALSE, <<>>, ""),
    Resp(200, TRUE, FALSE, <<>>, ""),
    Resp(401, TRUE, TRUE, <<"The", "access", "token", "expired">>, ""),
    Resp(403, TRUE, TRUE, <<"Insufficient", "client", "scope">>, ""),
    Resp(403, TRUE, TRUE, <<"Player", "command", "failed">>, ""),
    Resp(403, FALSE, FALSE, <<>>, ""),
    Resp(429, TRUE, TRUE, <<"API", "rate", "limit", "exceeded">>, "7"),
    Resp(429, FALSE, FALSE, <<>>, ""),
    Resp(404, TRUE, TRUE, <<"Not", "found">>, ""),
    Resp(500, FALSE, FALSE, <<>>, ""),
    Resp(0, FALSE, FALSE, <<>>, "") }

Outcome(k, m) == [kind |-> k, msg |-> m]

NoOutcome == Outcome("none", <<>>)

ResponseOk(resp) == resp.status >= 200 /\ resp.status <= 299

ErrorData(resp) == IF resp.bodyOk THEN resp.serverMsg ELSE <<>>

\* the 403 branch, lines 271-278 and 294-301
Classify403(resp) ==
  IF Includes(ErrorData(resp), ScopePattern)
    THEN Outcome("throw", ScopeMessage(ErrorData(resp)))
    ELSE Outcome("throw", ForbiddenMessage(ErrorData(resp)))

\* a successful response, lines 258-265 and 307-313
ClassifyOk(resp) ==
  IF resp.json
    THEN (IF resp.bodyOk THEN Outcome("value", <<>>)
                         ELSE Outcome("throw", JsonErrorMessage))
    ELSE Outcome("null", <<>>)

\* what the body of the try block does with the first response, lines 245-316
ClassifyFirst(resp) ==
  IF resp.status = 0 THEN Outcome("throw", NetworkErrorMessage)
  ELSE IF resp.status = 204 THEN Outcome("null", <<>>)
  ELSE IF ResponseOk(resp) THEN ClassifyOk(resp)
  ELSE IF resp.status = 429 THEN Outcome("throw", RateLimitMessage(resp.retryAfter))
  ELSE IF resp.status = 403 THEN Classify403(resp)
  ELSE IF resp.status = 401 THEN Outcome("refresh", <<>>)
  ELSE Outcome("null", <<>>)

\* a recursive retry: the retried response is handled like a first one
ClassifyRetryRecursive(resp) == ClassifyFirst(resp)

\* what the try block does with the response of the retried request, lines 282-316
ClassifyRetry(resp) ==
  IF resp.status = 0 THEN Outcome("throw", NetworkErrorMessage)
  ELSE IF resp.status = 204 THEN Outcome("null", <<>>)
  ELSE IF resp.status = 403 THEN Classify403(resp)
  ELSE IF resp.status = 429 THEN Outcome("throw", RateLimitMessage(resp.retryAfter))
  ELSE IF ResponseOk(resp) THEN ClassifyOk(resp)
  ELSE Outcome("null", <<>>)

\* a catch block that swallows every error
CatchHandlerSwallowAll(c) ==
  IF c.kind = "throw" THEN Outcome("null", <<>>) ELSE c

\* a catch block that re-throws every error
CatchHandlerRethrowAll(c) == c

\* the catch block of makeApiCall, lines 317-326
CatchHandler(c) ==
  IF c.kind = "throw"
    THEN (IF Includes(c.msg, RateLimitPattern) THEN c ELSE Outcome("null", <<>>))
    ELSE c

\* a guard that lets a call without a token through
HasTokenAlways(tok) == TRUE

\* !accessToken, line 234
HasToken(tok) == tok # 0

\* a check that never finds the token expired
TokenExpiredNever(expiry, t) == FALSE

\* accessTokenExpiryTs && Date.now() > accessTokenExpiryTs, lines 240-241
\* (expiry -1 is "key absent": getAccessTokenExpiryTs returns null)
TokenExpired(expiry, t) == expiry # -1 /\ expiry # 0 /\ t > expiry

(***************************************************************************)
(* The token endpoint and refreshAccessToken.                              *)
(***************************************************************************)
T0 == 1000000

TickStep == 4000000

Lifetime == 3600

TokenResp(k, a, r, e) == [kind |-> k, access |-> a, refresh |-> r, expires |-> e]

\* kind "neterr": fetch or response.json() rejects; access / refresh: the
\* response carries access_token / refresh_token; expires: expires_in or 0
TokenResponses ==
  { TokenResp("neterr", FALSE, FALSE, 0),
    TokenResp("json", FALSE, FALSE, 0),
    TokenResp("json", TRUE, TRUE, Lifetime),
    TokenResp("json", TRUE, FALSE, Lifetime),
    TokenResp("json", TRUE, FALSE, 0) }

\* data.access_token is truthy, line 211
RefreshSucceeds(tr) == tr.kind = "json" /\ tr.access

\* a refresh that stores the refresh_token field of every response
RefreshStoreOverwrite(st, tr, t, tok) ==
  LET s1 == [st EXCEPT !.access = tok]
      s2 == [s1 EXCEPT !.refresh = IF tr.refresh THEN tok ELSE 0]
      s3 == [s2 EXCEPT !.expiry =
               IF tr.expires # 0 THEN t + (tr.expires - 30) * 1000 ELSE 0]
  IN  IF tr.expires # 0 THEN [s3 EXCEPT !.expiry = tr.expires] ELSE s3

\* the writes of lines 212-222, in order
RefreshStore(st, tr, t, tok) ==
  LET s1 == [st EXCEPT !.access = tok]
      s2 == IF tr.refresh THEN [s1 EXCEPT !.refresh = tok] ELSE s1
      s3 == [s2 EXCEPT !.expiry =
               IF tr.expires # 0 THEN t + (tr.expires - 30) * 1000 ELSE 0]
      s4 == [s3 EXCEPT !.access = tok]
  IN  IF tr.expires # 0 THEN [s4 EXCEPT !.expiry = tr.expires] ELSE s4

Event(e, a, tok, st, m) ==
  [ev |-> e, url |-> a.url, method |-> a.method, body |-> a.body,
   token |-> tok, status |-> st, msg |-> m]

TokenEndpoint == [url |-> "TOKEN", method |-> "POST", body |-> "refresh_token"]

\* where makeApiCall continues when refreshAccessToken has returned:
\* line 242 ignores the result, lines 280-281 retry only when refreshed
ResumePc(site, refreshed) ==
  IF site = "expiry" THEN "fetch"
  ELSE IF refreshed THEN "fetch" ELSE "done"

ResumeAttempt(site, refreshed, n) ==
  IF site = "401" /\ refreshed THEN n + 1 ELSE n

\* falling out of `if (refreshed)` reaches `return null`, line 316
ResumeResult(site, refreshed, res) ==
  IF site = "401" /\ ~refreshed THEN Outcome("null", <<>>) ELSE res

(***************************************************************************)
(* makeApiCall, one step per await.                                        *)
(***************************************************************************)
ApiCalls ==
  { [url |-> "/playlists/p/tracks?limit=50&offset=0", method |-> "GET", body |-> "none"],
    [url |-> "/me/player/play", method |-> "PUT", body |-> "uris"] }

\* lines 232-236
ApiStart(args) ==
  /\ apiPc = "idle"
  /\ calls < MaxCalls
  /\ calls' = calls + 1
  /\ apiArgs' = args
  /\ accessToken' = store.access
  /\ attempt' = 1
  /\ refreshFor' = "none"
  /\ apiTrace' = <<>>
  /\ IF HasToken(store.access)
       THEN apiPc' = "expiry" /\ apiResult' = NoOutcome
       ELSE apiPc' = "done" /\ apiResult' = Outcome("throw", NoTokenMessage)
  /\ UNCHANGED <<store, now, issued>>
  /\ UNCHANGED <<fetchVars, pipelineVars>>

\* lines 239-243
ApiCheckExpiry ==
  /\ apiPc = "expiry"
  /\ IF TokenExpired(store.expiry, now)
       THEN apiPc' = "refresh" /\ refreshFor' = "expiry"
       ELSE apiPc' = "fetch" /\ UNCHANGED refreshFor
  /\ UNCHANGED <<store, now, issued, calls, apiArgs, accessToken, attempt,
                 apiTrace, apiResult>>
  /\ UNCHANGED <<fetchVars, pipelineVars>>

\* refreshAccessToken up to its fetch, lines 197-209
RefreshBegin ==
  /\ apiPc = "refresh"
  /\ IF store.refresh = 0
       THEN /\ apiTrace' = Append(apiTrace, Event("refreshCall", TokenEndpoint, 0, 0, <<>>))
            /\ apiPc' = ResumePc(refreshFor, FALSE)
            /\ attempt' = ResumeAttempt(refreshFor, FALSE, attempt)
            /\ apiResult' = ResumeResult(refreshFor, FALSE, apiResult)
       ELSE /\ apiTrace' = apiTrace \o
                 << Event("refreshCall", TokenEndpoint, 0, 0, <<>>),
                    Event("tokenRequest", TokenEndpoint, store.refresh, 0, <<>>) >>
            /\ apiPc' = "refreshWait"
            /\ UNCHANGED <<attempt, apiResult>>
  /\ UNCHANGED <<store, now, issued, calls, apiArgs, accessToken, refreshFor>>
  /\ UNCHANGED <<fetchVars, pipelineVars>>

\* refreshAccessToken from the token response on, lines 210-229
RefreshResponse(tr) ==
  /\ apiPc = "refreshWait"
  /\ IF RefreshSucceeds(tr)
       THEN /\ store' = RefreshStore(store, tr, now, issued + 1)
            /\ issued' = issued + 1
       ELSE UNCHANGED <<store, issued>>
  /\ apiTrace' = Append(apiTrace,
        Event("tokenResponse", TokenEndpoint, 0, IF RefreshSucceeds(tr) THEN 200 ELSE 400, <<>>))
  /\ apiPc' = ResumePc(refreshFor, RefreshSucceeds(tr))
  /\ attempt' = ResumeAttempt(refreshFor, RefreshSucceeds(tr), attempt)
  /\ apiResult' = ResumeResult(refreshFor, RefreshSucceeds(tr), apiResult)
  /\ UNCHANGED <<now, calls, apiArgs, accessToken, refreshFor>>
  /\ UNCHANGED <<fetchVars, pipelineVars>>

\* the fetch of lines 245-253 and the one of lines 282-290
ApiSendRequest ==
  /\ apiPc = "fetch"
  /\ apiTrace' = Append(apiTrace, Event("request", apiArgs, accessToken, 0, <<>>))
  /\ apiPc' = "await"
  /\ UNCHANGED <<store, now, issued, calls, apiArgs, accessToken, attempt,
                 refreshFor, apiResult>>
  /\ UNCHANGED <<fetchVars, pipelineVars>>

\* lines 255-326: the response arrives and is classified
ApiResponse(resp) ==
  /\ apiPc = "await"
  /\ apiTrace' = Append(apiTrace, Event("response", apiArgs, 0, resp.status, ErrorData(resp)))
  /\ LET c == IF attempt = 1 THEN ClassifyFirst(resp) ELSE ClassifyRetry(resp)
     IN  IF c.kind = "refresh"
           THEN apiPc' = "refresh" /\ refreshFor' = "401" /\ UNCHANGED apiResult
           ELSE apiPc' = "done" /\ apiResult' = CatchHandler(c) /\ UNCHANGED refreshFor
  /\ UNCHANGED <<store, now, issued, calls, apiArgs, accessToken, attempt>>
  /\ UNCHANGED <<fetchVars, pipelineVars>>

\* the caller receives the result
ApiReturn ==
  /\ apiPc = "done"
  /\ apiPc' = "idle"
  /\ UNCHANGED <<store, now, issued, calls, apiArgs, accessToken, attempt,
                 refreshFor, apiTrace, apiResult>>
  /\ UNCHANGED <<fetchVars, pipelineVars>>

\* time passes between two calls
Tick ==
  /\ apiPc = "idle"
  /\ now < T0 + MaxTicks * TickStep
  /\ now' = now + TickStep
  /\ UNCHANGED <<store, issued, calls, apiPc, apiArgs, accessToken, attempt,
                 refreshFor, apiTrace, apiResult>>
  /\ UNCHANGED <<fetchVars, pipelineVars>>

\* the credential store after a login (with or without a refresh token, with
\* or without expires_in), after a refresh, and after logout
InitStores ==
  { [access |-> 1, refresh |-> 1, expiry |-> T0 + (Lifetime - 30) * 1000, verifier |-> 0],
    [access |-> 1, refresh |-> 1, expiry |-> 0, verifier |-> 0],
    [access |-> 1, refresh |-> 1, expiry |-> Lifetime, verifier |-> 0],
    [access |-> 1, refresh |-> 0, expiry |-> T0 + (Lifetime - 30) * 1000, verifier |-> 0],
    [access |-> 1, refresh |-> 0, expiry |-> -1, verifier |-> 0],
    [access |-> 0, refresh |-> 0, expiry |-> -1, verifier |-> 0] }

QueueIdle ==
  /\ qTracks = <<>>
  /\ qPc = "idle"
  /\ qi = 0
  /\ retryCount = 0
  /\ success = FALSE
  /\ completed = 0
  /\ qLog = <<>>

ShuffleFnIdle ==
  /\ shInput = <<>>
  /\ shArray = <<>>
  /\ shResult = <<>>
  /\ shSteps = <<>>
  /\ shPc = "idle"

HomeIdle ==
  /\ homePc = <<>>
  /\ homePlaylist = <<>>
  /\ homeSent = <<>>
  /\ homeWire = <<>>
  /\ currentMutation = 0
  /\ isQueueing = FALSE
  /\ alertModal = [isVisible |-> FALSE, type |-> "generic", pendingPlaylist |-> ""]

AuthIdle ==
  /\ authPc = "idle"
  /\ authVariant = "none"
  /\ authData = TokenResp("none", FALSE, FALSE, 0)
  /\ authLog = <<>>
  /\ authSnap = [access |-> 0, refresh |-> 0, expiry |-> 0 - 1, verifier |-> 0]
  /\ authCalls = 0
  /\ logoutPc = "idle"
  /\ logoutPlan = <<>>
  /\ logoutBefore = [access |-> 0, refresh |-> 0, expiry |-> -1, verifier |-> 0]
  /\ observed = <<>>

ProvIdle ==
  /\ provUser = ""
  /\ provPlaylists = <<>>
  /\ savedData = <<>>
  /\ savedError = <<>>
  /\ needsReauth = FALSE
  /\ scopeDenied = FALSE
  /\ provContext = ""
  /\ provSteps = 0

MaxCallers == 2

Callers == 1..MaxCallers

ConcIdle ==
  /\ conPc = [c \in Callers |-> "idle"]
  /\ conSite = [c \in Callers |-> "none"]
  /\ conSent = [c \in Callers |-> 0]
  /\ conStale = {}
  /\ conLogout = FALSE

AuxIdle ==
  /\ ShuffleFnIdle
  /\ HomeIdle
  /\ AuthIdle
  /\ ProvIdle
  /\ ConcIdle

RunIdle ==
  /\ playlist = [id |-> "", uri |-> ""]
  /\ runPc = "idle"
  /\ runTracks = <<>>
  /\ freshShuffled = <<>>
  /\ ensuredDeviceId = ""
  /\ runLog = <<>>
  /\ runResult = [kind |-> "none", msg |-> <<>>]

ApiIdle ==
  /\ now = T0
  /\ issued = 1
  /\ calls = 0
  /\ apiPc = "idle"
  /\ apiArgs = [url |-> "", method |-> "", body |-> ""]
  /\ accessToken = 0
  /\ attempt = 1
  /\ refreshFor = "none"
  /\ apiTrace = <<>>
  /\ apiResult = NoOutcome

FetchIdle ==
  /\ fetchKind = "none"
  /\ remote = <<>>
  /\ fetchPc = "idle"
  /\ tracks = <<>>
  /\ remainingPages = 0
  /\ winStart = 0
  /\ batch = <<>>
  /\ completion = <<>>
  /\ pageLog = <<>>
  /\ sawLimit = FALSE
  /\ fetchResult = [kind |-> "none", value |-> <<>>, msg |-> <<>>]

InitApi ==
  /\ store \in InitStores
  /\ ApiIdle
  /\ FetchIdle
  /\ QueueIdle
  /\ RunIdle
  /\ AuxIdle

NextApi ==
  \/ \E args \in ApiCalls : ApiStart(args)
  \/ ApiCheckExpiry
  \/ RefreshBegin
  \/ \E tr \in TokenResponses : RefreshResponse(tr)
  \/ ApiSendRequest
  \/ \E resp \in Responses : ApiResponse(resp)
  \/ ApiReturn
  \/ Tick

SpecApi == InitApi /\ [][NextApi]_vars


(***************************************************************************)
(* The bulk collection fetcher: getPlaylistTracks and getUserSavedTracks.  *)
(* The two functions have the same body up to their catch blocks;          *)
(* fetchKind says which one runs.                                          *)
(***************************************************************************)
Limit == 50

ConcurrentRequests == 5

MaxTotal == 301

NullEvery == 23

Min(a, b) == IF a < b THEN a ELSE b

\* Math.ceil(a / b) for a >= 0, b > 0
CeilDiv(a, b) == (a + b - 1) \div b

\* the collections the provider may hold: track i has id i, 0 is a track the
\* provider removed from its catalog (served as null)
Totals == { t \in 0..MaxTotal : t % Limit \in {0, 1, 37} }

RemoteCollections ==
  { [i \in 1..t |-> IF withNulls /\ i % NullEvery = 0 THEN 0 ELSE i] :
      t \in Totals, withNulls \in BOOLEAN }

\* the items of the page ?limit=50&offset=o as the provider serves it
PageItems(coll, o) ==
  IF o >= Len(coll) THEN <<>> ELSE SubSeq(coll, o + 1, Min(o + Limit, Len(coll)))

NotNull(t) == t # 0

\* a map without the filter
FilterNullMissing(items) == items

\* items.map(item => item.track).filter(track => track !== null)
FilterNull(items) == SelectSeq(items, NotNull)

\* what happens to one makeApiCall: the answer to its request and, when that
\* is 401, whether the refresh succeeded and the answer to the retried request
Scenario(r1, ok, r2) == [first |-> r1, refreshed |-> ok, retry |-> r2]

PageOk == Resp(200, TRUE, TRUE, <<>>, "")

PageRateLimited == Resp(429, TRUE, TRUE, <<"API", "rate", "limit", "exceeded">>, "7")

Page401 == Resp(401, TRUE, TRUE, <<"The", "access", "token", "expired">>, "")

PageScenarios ==
  { Scenario(PageOk, FALSE, PageOk),
    Scenario(PageRateLimited, FALSE, PageOk),
    Scenario(Resp(403, TRUE, TRUE, <<"Insufficient", "client", "scope">>, ""), FALSE, PageOk),
    Scenario(Resp(500, FALSE, FALSE, <<>>, ""), FALSE, PageOk),
    Scenario(Resp(0, FALSE, FALSE, <<>>, ""), FALSE, PageOk),
    Scenario(Page401, FALSE, PageOk),
    Scenario(Page401, TRUE, PageOk),
    Scenario(Page401, TRUE, PageRateLimited) }

\* the result of makeApiCall (lines 245-326) in a scenario
ApiOutcome(sc) ==
  IF ClassifyFirst(sc.first).kind = "refresh"
    THEN (IF sc.refreshed THEN CatchHandler(ClassifyRetry(sc.retry))
                          ELSE Outcome("null", <<>>))
    ELSE CatchHandler(ClassifyFirst(sc.first))

\* rounding down instead of up
RemainingPagesFloor(total) == (total - Limit) \div Limit

\* lines 385-386: the number of pages after the first
RemainingPages(total) == CeilDiv(total - Limit, Limit)

\* lines 399-400: the offset of request j of the window starting at i
PageOffset(i, j) == (i + j + 1) * Limit

\* the inner loop bound of line 398: how many requests the window holds
WindowSize(i, remaining) == Min(ConcurrentRequests, remaining - i)

\* the promise of one page: .then of lines 403-406, .catch of lines 407-410
Settled(k, v, m) == [kind |-> k, value |-> v, msg |-> m]

\* a page promise without its .catch handler
PagePromiseNoCatch(outcome, items) ==
  IF outcome.kind = "value" THEN Settled("fulfilled", FilterNull(items), <<>>)
  ELSE IF outcome.kind = "throw" THEN Settled("rejected", <<>>, outcome.msg)
  ELSE Settled("fulfilled", <<>>, <<>>)

PagePromise(outcome, items) ==
  IF outcome.kind = "value" THEN Settled("fulfilled", FilterNull(items), <<>>)
  ELSE IF outcome.kind = "throw" THEN Settled("fulfilled", <<>>, <<>>)
  ELSE Settled("fulfilled", <<>>, <<>>)

RECURSIVE ConcatResults(_, _)
\* b[order[1]].result \o b[order[2]].result \o ...
ConcatResults(b, order) ==
  IF order = <<>> THEN <<>>
  ELSE b[Head(order)].result \o ConcatResults(b, Tail(order))

IndexOrder(b) == [j \in 1..Len(b) |-> j]

\* pushing every page as soon as it completes
JoinWindowAsCompleted(b, order) == ConcatResults(b, order)

\* lines 416-419: Promise.all keeps the order of batchPromises
JoinWindow(b, order) == ConcatResults(b, IndexOrder(b))

Pending(b) == { j \in 1..Len(b) : pageLog[b[j].page].state = "pending" }

\* Promise.race in place of Promise.all
AnySettled(b) == Pending(b) # DOMAIN b

\* line 416: Promise.all resolves when every promise of the batch has
AllSettled(b) == Pending(b) = {}

\* a catch block that answers every error with an empty list
FetchCatchReturnsEmpty(kind, msg) ==
  [kind |-> "return", value |-> <<>>, msg |-> <<>>]

\* the catch blocks, lines 428-431 and 516-524
FetchCatch(kind, msg) ==
  IF kind = "saved" /\ Includes(msg, ScopePattern)
    THEN [kind |-> "return", value |-> <<>>, msg |-> <<>>]
    ELSE [kind |-> "throw", value |-> <<>>, msg |-> msg]

Returned(v) == [kind |-> "return", value |-> v, msg |-> <<>>]

\* the status of the answer that decided a makeApiCall: the answer to the
\* retried request when there was one, else the answer to the first request
FinalStatus(sc) ==
  IF sc.first.status = 401 /\ sc.refreshed THEN sc.retry.status ELSE sc.first.status

LogEntry(o, w, st) == [offset |-> o, window |-> w, state |-> st, count |-> 0]

\* the requests of the window that starts at page index i (lines 395-413)
WindowLog(i, remaining) ==
  [j \in 1..WindowSize(i, remaining) |->
     LogEntry(PageOffset(i, j - 1), (i \div ConcurrentRequests) + 1, "pending")]

WindowBatch(i, remaining, logLen) ==
  [j \in 1..WindowSize(i, remaining) |-> [page |-> logLen + j, result |-> <<>>]]

\* lines 361-367 / 434-447: the first page is requested
FetchStart(kind) ==
  /\ fetchPc = "idle"
  /\ fetchKind' = kind
  /\ fetchPc' = "first"
  /\ pageLog' = << LogEntry(0, 0, "pending") >>
  /\ UNCHANGED <<remote, tracks, remainingPages, winStart, batch, completion,
                 sawLimit, fetchResult>>
  /\ UNCHANGED <<apiVars, pipelineVars>>

\* lines 367-413 / 440-499: the first page arrives; short is a first page
\* that holds fewer items than the limit although more exist
FirstPage(sc, short) ==
  /\ fetchPc = "first"
  /\ LET outcome == ApiOutcome(sc)
         full == PageItems(remote, 0)
         items == IF short /\ Len(full) = Limit
                    THEN SubSeq(full, 1, Limit - 1) ELSE full
         totalTracks == Len(remote)
         first == FilterNull(items)
         remaining == RemainingPages(totalTracks)
     IN  IF outcome.kind = "throw"
           THEN /\ fetchResult' = FetchCatch(fetchKind, outcome.msg)
                /\ fetchPc' = "done"
                /\ pageLog' = [pageLog EXCEPT ![1].state = "failed"]
                /\ UNCHANGED <<tracks, remainingPages, winStart, batch>>
         ELSE IF outcome.kind # "value"
           THEN /\ fetchResult' = Returned(<<>>)
                /\ fetchPc' = "done"
                /\ pageLog' = [pageLog EXCEPT ![1].state = "failed"]
                /\ UNCHANGED <<tracks, remainingPages, winStart, batch>>
         ELSE IF Len(items) < Limit \/ totalTracks <= Limit
           THEN /\ fetchResult' = Returned(first)
                /\ fetchPc' = "done"
                /\ tracks' = first
                /\ pageLog' = [pageLog EXCEPT ![1].state = "ok",
                                               ![1].count = Len(items)]
                /\ UNCHANGED <<remainingPages, winStart, batch>>
         ELSE /\ tracks' = first
              /\ remainingPages' = remaining
              /\ winStart' = 0
              /\ batch' = WindowBatch(0, remaining, 1)
              /\ pageLog' = [pageLog EXCEPT ![1].state = "ok",
                                             ![1].count = Len(items)]
                              \o WindowLog(0, remaining)
              /\ fetchPc' = "window"
              /\ UNCHANGED fetchResult
  /\ sawLimit' = (sawLimit \/ FinalStatus(sc) = 429)
  /\ UNCHANGED <<fetchKind, remote, completion>>
  /\ UNCHANGED <<apiVars, pipelineVars>>

\* lines 402-410 / 481-496: request j of the window completes
PageResolve(j, sc) ==
  /\ fetchPc = "window"
  /\ j \in Pending(batch)
  /\ LET p == batch[j].page
         outcome == ApiOutcome(sc)
         promise == PagePromise(outcome, PageItems(remote, pageLog[p].offset))
     IN  /\ pageLog' = [pageLog EXCEPT
                          ![p].state = IF outcome.kind = "value" THEN "ok" ELSE "failed",
                          ![p].count = IF outcome.kind = "value"
                                         THEN Len(PageItems(remote, pageLog[p].offset))
                                         ELSE 0]
         /\ completion' = Append(completion, j)
         /\ IF promise.kind = "rejected"
              THEN /\ fetchResult' = FetchCatch(fetchKind, promise.msg)
                   /\ fetchPc' = "done"
                   /\ UNCHANGED batch
              ELSE /\ batch' = [batch EXCEPT ![j].result = promise.value]
                   /\ UNCHANGED <<fetchResult, fetchPc>>
  /\ sawLimit' = (sawLimit \/ FinalStatus(sc) = 429)
  /\ UNCHANGED <<fetchKind, remote, tracks, remainingPages, winStart>>
  /\ UNCHANGED <<apiVars, pipelineVars>>

\* lines 416-427 / 502-514: Promise.all resolves, the window is appended
WindowJoin ==
  /\ fetchPc = "window"
  /\ AllSettled(batch)
  /\ tracks' = tracks \o JoinWindow(batch, completion)
  /\ IF winStart + ConcurrentRequests < remainingPages
       THEN fetchPc' = "delay" /\ UNCHANGED fetchResult
       ELSE fetchPc' = "done" /\ fetchResult' = Returned(tracks')
  /\ UNCHANGED <<fetchKind, remote, remainingPages, winStart, batch,
                 completion, pageLog, sawLimit>>
  /\ UNCHANGED <<apiVars, pipelineVars>>

\* lines 394-413, 422-424: the 100 ms delay is over, the next window is issued
DelayDone ==
  /\ fetchPc = "delay"
  /\ winStart' = winStart + ConcurrentRequests
  /\ batch' = WindowBatch(winStart', remainingPages, Len(pageLog))
  /\ pageLog' = pageLog \o WindowLog(winStart', remainingPages)
  /\ completion' = <<>>
  /\ fetchPc' = "window"
  /\ UNCHANGED <<fetchKind, remote, tracks, remainingPages, sawLimit,
                 fetchResult>>
  /\ UNCHANGED <<apiVars, pipelineVars>>

FetchKinds == {"playlist", "saved"}

InitFetch ==
  /\ store = [access |-> 1, refresh |-> 1, expiry |-> 0, verifier |-> 0]
  /\ ApiIdle
  /\ fetchKind = "none"
  /\ remote \in RemoteCollections
  /\ fetchPc = "idle"
  /\ tracks = <<>>
  /\ remainingPages = 0
  /\ winStart = 0
  /\ batch = <<>>
  /\ completion = <<>>
  /\ pageLog = <<>>
  /\ sawLimit = FALSE
  /\ fetchResult = [kind |-> "none", value |-> <<>>, msg |-> <<>>]
  /\ QueueIdle
  /\ RunIdle
  /\ AuxIdle

NextFetch ==
  \/ \E kind \in FetchKinds : FetchStart(kind)
  \/ \E sc \in PageScenarios, short \in BOOLEAN : FirstPage(sc, short)
  \/ \E j \in 1..ConcurrentRequests, sc \in PageScenarios : PageResolve(j, sc)
  \/ WindowJoin
  \/ DelayDone

SpecFetch == InitFetch /\ [][NextFetch]_vars

(***************************************************************************)
(* batchQueueTracks (src/hooks/useSpotifyQueries.ts, lines 108-162): the   *)
(* tracks are submitted one after the other through addToQueue.            *)
(***************************************************************************)
MaxQueueLen == 3

MaxRetries == 3

BaselineDelay == 150

\* what happens to one addToQueue call: whether a token is stored when
\* makeApiCall starts, and the scenario of its request
QueueScenario(tok, sc) == [token |-> tok, api |-> sc]

QueueScenarios ==
  { QueueScenario(TRUE, Scenario(Resp(204, FALSE, FALSE, <<>>, ""), FALSE, PageOk)),
    QueueScenario(TRUE, Scenario(Resp(500, FALSE, FALSE, <<>>, ""), FALSE, PageOk)),
    QueueScenario(TRUE, Scenario(PageRateLimited, FALSE, PageOk)),
    QueueScenario(TRUE, Scenario(Page401, TRUE, PageRateLimited)),
    QueueScenario(TRUE, Scenario(Page401, FALSE, PageOk)),
    QueueScenario(FALSE, Scenario(PageOk, FALSE, PageOk)) }

\* an addToQueue that throws when the answer is not a success
AddToQueueStrict(qs) ==
  IF ~qs.token THEN Outcome("throw", NoTokenMessage)
  ELSE IF ApiOutcome(qs.api).kind = "throw" THEN ApiOutcome(qs.api)
  ELSE IF FinalStatus(qs.api) \notin 200..299 THEN Outcome("throw", <<"Request", "failed">>)
  ELSE Outcome("value", <<>>)

\* addToQueue: the call returns true whatever makeApiCall returned
\* (res !== null || true) and throws what makeApiCall throws
AddToQueue(qs) ==
  IF ~qs.token THEN Outcome("throw", NoTokenMessage)
  ELSE IF ApiOutcome(qs.api).kind = "throw" THEN ApiOutcome(qs.api)
  ELSE Outcome("value", <<>>)

\* the status the provider answered with, -1 when no request was sent
AnsweredStatus(qs) == IF qs.token THEN FinalStatus(qs.api) ELSE -1

\* every thrown error taken for a rate limit
IsRateLimitErrorAlways(msg) == TRUE

\* line 135: error.message.includes('429') (the errors of makeApiCall carry
\* no status field)
IsRateLimitError(msg) == Includes(msg, <<"429">>)

\* a delay that grows by one second per retry
BackoffDelayLinear(count) == count * 1000

\* line 139: Math.pow(2, retryCount - 1) * 1000
BackoffDelay(count) == (2 ^ (count - 1)) * 1000

\* line 130: while (!success && retryCount <= maxRetries)
LoopContinues(succ, count) == ~succ /\ count <= MaxRetries

\* the list walked from its end
TrackUriReversed(uris, i) == uris[Len(uris) - i]

\* line 125: trackUris[i], i counted from 0
TrackUri(uris, i) == uris[i + 1]

\* a counter of the successes only
CompletedAfterSuccessOnly(count, succ) == IF succ THEN count + 1 ELSE count

\* line 153: completed++ whatever the outcome of the track
CompletedAfter(count, succ) == count + 1

\* a wait after every track
NeedsBaselineAlways(i, n) == TRUE

\* line 158: i < trackUris.length - 1
NeedsBaseline(i, n) == i < n - 1

MAX_QUEUE_SIZE == 150

NullMessage == <<>>

\* a call mutationFn makes
RunCall(e, a, u) ==
  [ev |-> e, arg |-> a, uris |-> u,
   isQueueing |-> FALSE, progress |-> 0, total |-> 0, message |-> NullMessage]

\* an event handed to onProgressUpdate
RunProgress(q, p, t, m) ==
  [ev |-> "event", arg |-> "", uris |-> <<>>,
   isQueueing |-> q, progress |-> p, total |-> t, message |-> m]

\* lines 231-242 of useSpotifyQueries.ts: the onProgress callback mutationFn
\* hands to batchQueueTracks (a run of batchQueueTracks on its own has a
\* callback that leaves the log of mutationFn alone)
OnProgress(log, progress, total) ==
  IF runPc # "draining" THEN log
  ELSE Append(log,
         RunProgress(TRUE, progress, total,
           IF Len(runTracks) > MAX_QUEUE_SIZE
             THEN <<"Queued", ToString(progress), "of", ToString(total), "songs",
                    ToString(progress + 1), ToString(MAX_QUEUE_SIZE), "total">>
             ELSE <<"Queued", ToString(progress), "of", ToString(total), "tracks">>))

QEvent(e, i, u, v, k) ==
  [ev |-> e, i |-> i, uri |-> u, val |-> v, kind |-> k, total |-> Len(qTracks)]

\* lines 153-160: the track is over; the counter, the progress callback and
\* the baseline wait
QAfterTrack(log, succ) ==
  /\ completed' = CompletedAfter(completed, succ)
  /\ LET u == TrackUri(qTracks, qi)
         progress == QEvent("progress", qi, u, CompletedAfter(completed, succ), "")
     IN IF NeedsBaseline(qi, Len(qTracks))
          THEN /\ qLog' = log \o << progress, QEvent("baseline", qi, u, BaselineDelay, "") >>
               /\ qPc' = "pause"
          ELSE /\ qLog' = log \o << progress >>
               /\ qPc' = "done"

\* lines 112-126: batchQueueTracks is entered with a list of tracks
BatchBegin(uris) ==
  /\ qPc = "idle"
  /\ qTracks' = uris
  /\ qi' = 0
  /\ completed' = 0
  /\ qLog' = <<>>
  /\ retryCount' = 0
  /\ success' = FALSE
  /\ qPc' = IF Len(uris) > 0 THEN "try" ELSE "done"

\* a run of batchQueueTracks on its own
BatchStart(uris) ==
  /\ BatchBegin(uris)
  /\ UNCHANGED <<apiVars, fetchVars, auxVars, runVars>>

\* line 132: addToQueue is called for trackUris[i]
QSubmit ==
  /\ qPc = "try"
  /\ LoopContinues(success, retryCount)
  /\ qLog' = Append(qLog, QEvent("submit", qi, TrackUri(qTracks, qi), retryCount, ""))
  /\ qPc' = "inflight"
  /\ UNCHANGED <<qTracks, qi, retryCount, success, completed>>
  /\ UNCHANGED <<apiVars, fetchVars, auxVars, runVars>>

\* lines 132-150: the call settles
QOutcome(qs) ==
  /\ qPc = "inflight"
  /\ LET o == AddToQueue(qs)
         u == TrackUri(qTracks, qi)
         st == AnsweredStatus(qs)
     IN IF o.kind # "throw"
          THEN /\ success' = TRUE
               /\ UNCHANGED retryCount
               /\ QAfterTrack(Append(qLog, QEvent("outcome", qi, u, st, "success")), TRUE)
          ELSE IF IsRateLimitError(o.msg)
            THEN /\ retryCount' = retryCount + 1
                 /\ UNCHANGED success
                 /\ IF retryCount + 1 <= MaxRetries
                      THEN /\ qLog' = qLog \o
                                << QEvent("outcome", qi, u, st, "rateLimited"),
                                   QEvent("backoff", qi, u, BackoffDelay(retryCount + 1), "") >>
                           /\ qPc' = "backoff"
                           /\ UNCHANGED completed
                      ELSE IF LoopContinues(success, retryCount + 1)
                        THEN /\ qLog' = Append(qLog, QEvent("outcome", qi, u, st, "rateLimited"))
                             /\ qPc' = "try"
                             /\ UNCHANGED completed
                        ELSE QAfterTrack(Append(qLog, QEvent("outcome", qi, u, st, "gaveUp")),
                                         FALSE)
            ELSE /\ UNCHANGED <<success, retryCount>>
                 /\ QAfterTrack(Append(qLog, QEvent("outcome", qi, u, st, "error")), FALSE)
  /\ runLog' = IF qPc' \in {"pause", "done"}
                 THEN OnProgress(runLog, completed', Len(qTracks))
                 ELSE runLog
  /\ UNCHANGED <<qTracks, qi>>
  /\ UNCHANGED <<playlist, runPc, runTracks, freshShuffled, ensuredDeviceId, runResult>>
  /\ UNCHANGED <<apiVars, fetchVars, auxVars>>

\* line 140: the backoff wait is over, the loop of line 130 goes round
QBackoffDone ==
  /\ qPc = "backoff"
  /\ qPc' = "try"
  /\ UNCHANGED <<qTracks, qi, retryCount, success, completed, qLog>>
  /\ UNCHANGED <<apiVars, fetchVars, auxVars, runVars>>

\* line 159: the baseline wait is over, the for loop moves to the next track
QPauseDone ==
  /\ qPc = "pause"
  /\ qi' = qi + 1
  /\ retryCount' = 0
  /\ success' = FALSE
  /\ qPc' = "try"
  /\ UNCHANGED <<qTracks, completed, qLog>>
  /\ UNCHANGED <<apiVars, fetchVars, auxVars, runVars>>

\* the lists handed to batchQueueTracks: n distinct tracks
QueueLists == { [i \in 1..n |-> 100 + i] : n \in 0..MaxQueueLen }

InitQueue ==
  /\ store = [access |-> 1, refresh |-> 1, expiry |-> 0, verifier |-> 0]
  /\ ApiIdle
  /\ FetchIdle
  /\ QueueIdle
  /\ RunIdle
  /\ AuxIdle

NextQueue ==
  \/ \E uris \in QueueLists : BatchStart(uris)
  \/ QSubmit
  \/ \E qs \in QueueScenarios : QOutcome(qs)
  \/ QBackoffDone
  \/ QPauseDone

SpecQueue == InitQueue /\ [][NextQueue]_vars

(***************************************************************************)
(* useQueueShuffleMutation (src/hooks/useSpotifyQueries.ts, lines 164-286): *)
(* mutationFn resolves the tracks, shuffles them, finds a device, plays    *)
(* the first track and drains the rest through batchQueueTracks.           *)
(***************************************************************************)
MaxShuffleLen == 3

MaxOver == 1

RandomScale == 12

LikedSongs == [id |-> "liked-songs", uri |-> "spotify:collection:tracks"]

Playlists == { LikedSongs, [id |-> "p1", uri |-> "spotify:playlist:p1"] }

\* variables.tracks: absent, or a list of tracks given by their uri, 0 for a
\* uri that is null
Supplied(p, l) == [present |-> p, list |-> l]

SuppliedLists ==
  { Supplied(FALSE, <<>>), Supplied(TRUE, <<>>), Supplied(TRUE, <<0>>),
    Supplied(TRUE, <<7>>), Supplied(TRUE, <<7, 0, 9>>), Supplied(TRUE, <<7, 8, 9>>) }

\* a test that looks at the first track only
NeedsFetchFirstOnly(sup) ==
  ~sup.present \/ Len(sup.list) = 0 \/ sup.list[1] = 0

\* line 175: !tracks || tracks.length === 0 || tracks.some(t => t.uri === null)
NeedsFetch(sup) ==
  ~sup.present \/ Len(sup.list) = 0 \/ \E i \in DOMAIN sup.list : sup.list[i] = 0

\* lines 177-189: the fetch function the query runs
FetchFunction(pl) ==
  IF pl.id = "liked-songs" THEN "getUserSavedTracks" ELSE "getPlaylistTracks"

\* the sizes of the fetched lists: short ones and, in the runs that were
\* given no list, ones around MAX_QUEUE_SIZE
SourceSizes ==
  (0..MaxShuffleLen)
    \cup (IF runLog # <<>> /\ runLog[1].arg = "absent"
            THEN (MAX_QUEUE_SIZE - 1)..(MAX_QUEUE_SIZE + MaxOver) ELSE {})

\* what queryClient.fetchQuery settles with
FetchOutcomes ==
  { [kind |-> "return", value |-> [i \in 1..n |-> i], msg |-> <<>>] : n \in SourceSizes }
  \cup { [kind |-> "throw", value |-> <<>>, msg |-> RateLimitMessage("7")],
         [kind |-> "cancelled", value |-> <<>>, msg |-> <<"CancelledError">>] }

\* the values getSecureRandom returns at the steps of one shuffle, as
\* numerators over RandomScale: every choice for a short list, two fixed
\* choices for a long one
Draws(n) ==
  IF n <= MaxShuffleLen
    THEN [1..(n - 1) -> 0..(RandomScale - 1)]
    ELSE { [i \in 1..(n - 1) |-> 0],
           [i \in 1..(n - 1) |-> (5 * i) % RandomScale] }

\* line 794: Math.floor(randomValue * (i + 1))
DrawIndex(k, i) == (k * (i + 1)) \div RandomScale

\* an assignment in one direction only
SwapOverwrite(a, i, j) == [a EXCEPT ![i + 1] = a[j + 1]]

\* line 795: the elements at the 0-based places i and j change places
Swap(a, i, j) ==
  [a EXCEPT ![i + 1] = a[j + 1], ![j + 1] = a[i + 1]]

RECURSIVE ShuffleFrom(_, _, _, _)
\* lines 791-796: the steps of the loop from place hi down to place lo, the
\* upper half of the steps first and the lower half on its result (a swap
\* keeps the length, so the test of the lengths always holds: it makes the
\* upper half a value before the lower half starts)
ShuffleFrom(a, hi, lo, draws) ==
  IF hi < lo THEN a
  ELSE IF hi = lo THEN Swap(a, hi, DrawIndex(draws[hi], hi))
  ELSE LET mid == (hi + lo) \div 2
           upper == ShuffleFrom(a, hi, mid + 1, draws)
       IN IF Len(upper) = Len(a) THEN ShuffleFrom(upper, mid, lo, draws) ELSE upper

\* lines 785-799: the loop runs on a copy of the array
trueRandomShuffle(array, draws) ==
  ShuffleFrom(SubSeq(array, 1, Len(array)), Len(array) - 1, 1, draws)

\* line 786: the loop writes to the copy, the array of the caller keeps
\* what it held
ArrayAfterShuffle(array, draws) == array

\* line 794: the index drawn at each step i of the loop
ShuffleSteps(array, draws) ==
  [i \in 1..(Len(array) - 1) |-> DrawIndex(draws[i], i)]

\* slice(from) and slice(0, to) of JavaScript, on a 1-based sequence
Slice(a, from, to) == SubSeq(a, from + 1, Min(to, Len(a)))

\* a queue as long as the whole rest
TracksToQueueUncapped(shuffled) == Slice(shuffled, 1, Len(shuffled))

\* lines 198-199: rest.slice(0, MAX_QUEUE_SIZE - 1) of freshShuffled.slice(1)
TracksToQueue(shuffled) ==
  Slice(Slice(shuffled, 1, Len(shuffled)), 0, MAX_QUEUE_SIZE - 1)

\* a play command for the whole shuffled list
PlayUrisAll(shuffled) == shuffled

\* lines 195, 216: playUris([first.uri], ...), first = freshShuffled[0]
PlayUris(shuffled) == << shuffled[1] >>

\* line 209
PlaylistUri(pl) == IF pl.id = "liked-songs" THEN "spotify:collection:tracks" ELSE pl.uri

RunSettled(k, m) == [kind |-> k, msg |-> m]

\* the failure message for every rejection
OnErrorGeneric(settled) ==
  RunProgress(FALSE, 0, 0, <<"An", "error", "occurred.">>)

\* lines 271-283: onError
OnError(settled) ==
  IF settled.kind = "cancelled"
    THEN RunProgress(FALSE, 0, 0, NullMessage)
    ELSE RunProgress(FALSE, 0, 0, <<"An", "error", "occurred.">>)

\* lines 219-221, 249-251: the messages of the first and of the last event
InitialMessage(n) ==
  IF n > MAX_QUEUE_SIZE
    THEN <<"Queueing", ToString(MAX_QUEUE_SIZE), "randomly", "selected", "songs">>
    ELSE <<"Preparing", "your", "truly", "random", "queue">>

\* a completion message for every run
FinalMessageAlways(n) ==
  <<"Queued", ToString(MAX_QUEUE_SIZE), "random", "songs">>

FinalMessage(n) ==
  IF n > MAX_QUEUE_SIZE
    THEN <<"Queued", ToString(MAX_QUEUE_SIZE), "random", "songs">>
    ELSE NullMessage

\* one device of the list getDevices returns
Device(id, active) == [id |-> id, is_active |-> active]

\* what getDevices settles with: a list of devices, null, or an error
PollOutcome(k, d) == [kind |-> k, devices |-> d]

PollOutcomes ==
  { PollOutcome("list", << Device("dev1", FALSE), Device("dev2", TRUE) >>),
    PollOutcome("list", << Device("dev1", FALSE) >>),
    PollOutcome("list", <<>>),
    PollOutcome("null", <<>>),
    PollOutcome("throw", <<>>) }

\* what the attempt to open the Spotify app does (spotify.ts lines 581-591)
OpenOutcomes == {"openURL", "openBrowserAsync", "throw"}

\* spotify.ts lines 566-579: the deep link
DeepLink(trackUri, playlistUri) ==
  IF playlistUri = "spotify:collection:tracks" THEN "open.spotify.com/collection/tracks"
  ELSE IF trackUri # 0 /\ playlistUri # "" THEN "open.spotify.com/track?context"
  ELSE IF trackUri # 0 THEN "open.spotify.com/track"
  ELSE "open.spotify.com"

\* spotify.ts lines 559, 597: devices && devices.length > 0
HasDevices(p) == p.kind = "list" /\ Len(p.devices) > 0

\* spotify.ts lines 560-561, 598-599: the active device, else the first
PickDevice(devices) ==
  IF \E k \in DOMAIN devices : devices[k].is_active
    THEN devices[CHOOSE k \in DOMAIN devices :
                   /\ devices[k].is_active
                   /\ \A m \in DOMAIN devices : devices[m].is_active => k <= m].id
    ELSE devices[1].id

\* spotify.ts lines 558-604: where ensureActiveDevice goes after poll n
AfterPoll(n, p) ==
  IF p.kind = "throw" THEN "undefined"
  ELSE IF HasDevices(p) THEN "return"
  ELSE IF n = 1 THEN "open"
  ELSE "undefined"

\* a second poll right after the attempt to open the app
AfterOpenNoWait(o) == "poll"

\* spotify.ts lines 581-594: the wait follows whatever the attempt did
AfterOpen(o) == "settle"

\* the mutation rejects: onError reports it
RunReject(log, settled) ==
  /\ runResult' = settled
  /\ runLog' = Append(log, OnError(settled))
  /\ runPc' = "done"

\* lines 171-190: mutationFn is entered; the tracks are taken or fetched
RunStart(pl, sup) ==
  /\ runPc = "idle"
  /\ playlist' = pl
  /\ IF NeedsFetch(sup)
       THEN /\ runLog' = << RunCall("mutate", IF sup.present THEN "tracks" ELSE "absent", sup.list),
                            RunCall(FetchFunction(pl),
                                    IF pl.id = "liked-songs" THEN "" ELSE pl.id, <<>>) >>
            /\ runPc' = "fetching"
            /\ runTracks' = <<>>
       ELSE /\ runLog' = << RunCall("mutate", "tracks", sup.list) >>
            /\ runPc' = "resolved"
            /\ runTracks' = sup.list
  /\ UNCHANGED <<freshShuffled, ensuredDeviceId, runResult>>
  /\ UNCHANGED <<apiVars, fetchVars, auxVars, queueVars>>

\* lines 178-188: fetchQuery settles
RunFetched(o) ==
  /\ runPc = "fetching"
  /\ LET log == Append(runLog, RunCall("fetched", o.kind, <<>>))
     IN IF o.kind = "return"
          THEN /\ runTracks' = o.value
               /\ runPc' = "resolved"
               /\ runLog' = log
               /\ UNCHANGED runResult
          ELSE /\ RunReject(log, RunSettled(o.kind, o.msg))
               /\ UNCHANGED runTracks
  /\ UNCHANGED <<playlist, freshShuffled, ensuredDeviceId>>
  /\ UNCHANGED <<apiVars, fetchVars, auxVars, queueVars>>

\* a run that goes on with no track
NothingToShuffleNever(list) == FALSE

\* line 192: !tracks || tracks.length === 0
NothingToShuffle(list) == Len(list) = 0

\* lines 192-210: nothing to shuffle, or the shuffle and the call of
\* ensureActiveDevice
RunShuffle(draws) ==
  /\ runPc = "resolved"
  /\ IF NothingToShuffle(runTracks)
       THEN /\ runResult' = RunSettled("false", <<>>)
            /\ runPc' = "done"
            /\ UNCHANGED freshShuffled
            /\ UNCHANGED runLog
       ELSE /\ freshShuffled' = trueRandomShuffle(runTracks, draws)
            /\ runLog' = Append(runLog, RunCall("getDevices", "first", <<>>))
            /\ runPc' = "poll1"
            /\ UNCHANGED runResult
  /\ UNCHANGED <<playlist, runTracks, ensuredDeviceId>>
  /\ UNCHANGED <<apiVars, fetchVars, auxVars, queueVars>>

\* what a poll found, as the log of the run keeps it
PollKind(p) ==
  IF p.kind = "throw" THEN "error" ELSE IF HasDevices(p) THEN "devices" ELSE "none"

\* lines 211-214: ensureActiveDevice has returned id ("" for undefined)
RunDeviceReturn(id) ==
  /\ ensuredDeviceId' = id
  /\ IF id = ""
       THEN runResult' = RunSettled("false", <<>>) /\ runPc' = "done"
       ELSE runPc' = "transfer" /\ UNCHANGED runResult

\* spotify.ts lines 558-562, 596-603: a call of getDevices settles
DevicePolled(p) ==
  /\ runPc \in {"poll1", "poll2"}
  /\ LET next == AfterPoll(IF runPc = "poll1" THEN 1 ELSE 2, p)
     IN IF next = "return" THEN RunDeviceReturn(PickDevice(p.devices))
        ELSE IF next = "undefined" THEN RunDeviceReturn("")
        ELSE runPc' = "open" /\ UNCHANGED <<ensuredDeviceId, runResult>>
  /\ runLog' = Append(runLog, RunCall("polled", PollKind(p), <<>>))
  /\ UNCHANGED <<playlist, runTracks, freshShuffled>>
  /\ UNCHANGED <<apiVars, fetchVars, auxVars, queueVars>>

\* spotify.ts lines 564-594: the attempt to open the app, then the wait
DeviceOpened(o) ==
  /\ runPc = "open"
  /\ LET log == Append(runLog,
                  RunCall(o, IF o = "openBrowserAsync" THEN "open.spotify.com"
                             ELSE DeepLink(freshShuffled[1], PlaylistUri(playlist)), <<>>))
     IN IF AfterOpen(o) = "settle"
          THEN runLog' = Append(log, RunCall("settle", "1500", <<>>)) /\ runPc' = "settle"
          ELSE runLog' = Append(log, RunCall("getDevices", "second", <<>>)) /\ runPc' = "poll2"
  /\ UNCHANGED <<playlist, runTracks, freshShuffled, ensuredDeviceId, runResult>>
  /\ UNCHANGED <<apiVars, fetchVars, auxVars, queueVars>>

\* spotify.ts lines 594-596: the wait is over, getDevices is called again
DeviceSettled ==
  /\ runPc = "settle"
  /\ runLog' = Append(runLog, RunCall("getDevices", "second", <<>>))
  /\ runPc' = "poll2"
  /\ UNCHANGED <<playlist, runTracks, freshShuffled, ensuredDeviceId, runResult>>
  /\ UNCHANGED <<apiVars, fetchVars, auxVars, queueVars>>

\* line 215: transferPlayback returns or throws
RunTransfer(o) ==
  /\ runPc = "transfer"
  /\ LET log == Append(runLog, RunCall("transferPlayback", ensuredDeviceId, <<>>))
     IN IF o.kind = "throw"
          THEN RunReject(log, RunSettled("throw", o.msg))
          ELSE runLog' = log /\ runPc' = "play" /\ UNCHANGED runResult
  /\ UNCHANGED <<playlist, runTracks, freshShuffled, ensuredDeviceId>>
  /\ UNCHANGED <<apiVars, fetchVars, auxVars, queueVars>>

\* lines 216-229: playUris returns or throws; the first event; batchQueueTracks
\* is entered
RunPlay(o) ==
  /\ runPc = "play"
  /\ LET log == Append(runLog, RunCall("playUris", ensuredDeviceId, PlayUris(freshShuffled)))
         queue == TracksToQueue(freshShuffled)
     IN IF o.kind = "throw"
          THEN /\ RunReject(log, RunSettled("throw", o.msg))
               /\ UNCHANGED queueVars
          ELSE /\ runLog' = Append(log, RunProgress(TRUE, 0, Len(queue),
                                                    InitialMessage(Len(runTracks))))
               /\ runPc' = "draining"
               /\ BatchBegin(queue)
               /\ UNCHANGED runResult
  /\ UNCHANGED <<playlist, runTracks, freshShuffled, ensuredDeviceId>>
  /\ UNCHANGED <<apiVars, fetchVars, auxVars>>

\* lines 245-269: batchQueueTracks has returned; the last event
\* line 264: the delay of the timer that clears the completion message
ClearDelay == 2000

RunFinalize ==
  /\ runPc = "draining"
  /\ qPc = "done"
  /\ LET log == Append(runLog, RunProgress(FALSE, Len(qTracks), Len(qTracks),
                                              FinalMessage(Len(runTracks))))
     IN  runLog' = IF FinalMessage(Len(runTracks)) # NullMessage
                     THEN Append(log, RunCall("setTimeout", ToString(ClearDelay), <<>>))
                     ELSE log
  /\ runResult' = RunSettled("true", <<>>)
  /\ runPc' = IF FinalMessage(Len(runTracks)) # NullMessage THEN "timer" ELSE "done"
  /\ UNCHANGED <<playlist, runTracks, freshShuffled, ensuredDeviceId>>
  /\ UNCHANGED <<apiVars, fetchVars, auxVars, queueVars>>

\* lines 262-264: the timer of 2000 ms fires
RunClearMessage ==
  /\ runPc = "timer"
  /\ runLog' = Append(runLog, RunProgress(FALSE, Len(qTracks), Len(qTracks), NullMessage))
  /\ runPc' = "done"
  /\ UNCHANGED <<playlist, runTracks, freshShuffled, ensuredDeviceId, runResult>>
  /\ UNCHANGED <<apiVars, fetchVars, auxVars, queueVars>>

\* what transferPlayback and playUris settle with: they return true whatever
\* makeApiCall returned and throw what it throws
PlayerOutcomes ==
  { AddToQueue(qs) : qs \in QueueScenarios }

QueueAccepted == QueueScenario(TRUE, Scenario(Resp(204, FALSE, FALSE, <<>>, ""), FALSE, PageOk))

\* the answers to the submissions of a run: every scenario while the queue
\* is short, acceptance only for a long one
DrainScenarios ==
  IF Len(qTracks) <= 2 THEN QueueScenarios ELSE { QueueAccepted }

\* the answers to the device polls of a run: every outcome for a short
\* list, one device for a long one
RunPollOutcomes ==
  IF Len(runTracks) <= MaxShuffleLen THEN PollOutcomes
  ELSE { PollOutcome("list", << Device("dev1", FALSE) >>) }

InitShuffle ==
  /\ store = [access |-> 1, refresh |-> 1, expiry |-> 0, verifier |-> 0]
  /\ ApiIdle
  /\ FetchIdle
  /\ QueueIdle
  /\ RunIdle
  /\ AuxIdle

NextShuffle ==
  \/ \E pl \in Playlists, sup \in SuppliedLists : RunStart(pl, sup)
  \/ \E o \in FetchOutcomes : RunFetched(o)
  \/ \E draws \in Draws(Len(runTracks)) : RunShuffle(draws)
  \/ \E p \in RunPollOutcomes : DevicePolled(p)
  \/ \E o \in OpenOutcomes : DeviceOpened(o)
  \/ DeviceSettled
  \/ \E o \in PlayerOutcomes : RunTransfer(o)
  \/ \E o \in PlayerOutcomes : RunPlay(o)
  \/ QSubmit
  \/ \E qs \in DrainScenarios : QOutcome(qs)
  \/ QBackoffDone
  \/ QPauseDone
  \/ RunFinalize
  \/ RunClearMessage

SpecShuffle == InitShuffle /\ [][NextShuffle]_vars

\* the fetches that return a short list
ShortFetchOutcomes ==
  { o \in FetchOutcomes : o.kind = "return" /\ Len(o.value) <= MaxShuffleLen }

\* the runs on short lists whose submissions are all accepted
NextDeviceCheck ==
  \/ \E pl \in Playlists, sup \in SuppliedLists : RunStart(pl, sup)
  \/ \E o \in ShortFetchOutcomes : RunFetched(o)
  \/ \E draws \in Draws(Len(runTracks)) : RunShuffle(draws)
  \/ \E p \in PollOutcomes : DevicePolled(p)
  \/ \E o \in OpenOutcomes : DeviceOpened(o)
  \/ DeviceSettled
  \/ \E o \in PlayerOutcomes : RunTransfer(o)
  \/ \E o \in PlayerOutcomes : RunPlay(o)
  \/ QSubmit
  \/ QOutcome(QueueAccepted)
  \/ QPauseDone
  \/ RunFinalize

\* every request is answered or fails and every timer fires: a step that
\* can be taken is taken
SpecDeviceCheck == InitShuffle /\ [][NextDeviceCheck]_vars /\ WF_vars(NextDeviceCheck)

(***************************************************************************)
(* trueRandomShuffle on its own (src/utils/spotify.ts, lines 785-800):     *)
(* one call on every array of a bounded length, with every value           *)
(* getSecureRandom can return at each step.                                *)
(***************************************************************************)
MaxArrayLen == 4

\* the arrays handed to trueRandomShuffle: arrays with repeated elements
\* and arrays of distinct elements
ShuffleInputs ==
  UNION { [1..n -> {1, 2}] : n \in 0..MaxArrayLen }
    \cup { [i \in 1..n |-> 10 + i] : n \in 0..MaxArrayLen }

ShuffleFnDraws(n) == [1..(n - 1) -> 0..(RandomScale - 1)]

\* lines 785-799: one call of trueRandomShuffle
ShuffleCall(array, draws) ==
  /\ shPc = "idle"
  /\ shInput' = array
  /\ shArray' = ArrayAfterShuffle(array, draws)
  /\ shResult' = trueRandomShuffle(array, draws)
  /\ shSteps' = ShuffleSteps(array, draws)
  /\ shPc' = "done"
  /\ UNCHANGED <<apiVars, fetchVars, queueVars, runVars, homeVars, authVars, provVars, concVars>>

InitShuffleFn ==
  /\ store = [access |-> 1, refresh |-> 1, expiry |-> 0, verifier |-> 0]
  /\ ApiIdle
  /\ FetchIdle
  /\ QueueIdle
  /\ RunIdle
  /\ AuxIdle

NextShuffleFn ==
  /\ shPc = "idle"
  /\ \E array \in ShuffleInputs : \E draws \in ShuffleFnDraws(Len(array)) :
       ShuffleCall(array, draws)

SpecShuffleFn == InitShuffleFn /\ [][NextShuffleFn]_vars

(***************************************************************************)
(* The home screen (src/app/(tabs)/index.tsx).  Every press of a card and  *)
(* every primary action of the alert starts a call of handlePlaylistSelect;*)
(* the calls are numbered in the order they start.  A call that passes the *)
(* checks hands its playlist to mutate, and the run of mutationFn is       *)
(* followed by the requests it sends to the player: one playUris, then one *)
(* addToQueue per track to queue.  mutate starts a new mutation and makes  *)
(* the observer follow it; a mutation already running is not stopped.      *)
(* While the progress overlay or the alert is shown no card is pressed.    *)
(***************************************************************************)
MaxHandlers == 2

HomeQueueLen == 2

HomePlaylists == {"liked-songs", "p1"}

\* line 42: isPending of the mutation the observer follows
isPending ==
  /\ currentMutation # 0
  /\ homePc[currentMutation] = "pending"

\* line 240: isVisible of QueueProgressOverlay
OverlayVisible == isQueueing \/ isPending

\* lines 191-192: disabled={isPending || isLikedSongsLoading}, under the
\* overlay and the alert
CardEnabled ==
  /\ ~isPending
  /\ ~OverlayVisible
  /\ ~alertModal.isVisible

HiddenAlert == [isVisible |-> FALSE, type |-> "generic", pendingPlaylist |-> ""]

\* line 50: handlePlaylistSelect is entered and awaits hasActiveDevice()
HandlerStart(pl) ==
  /\ homePc' = Append(homePc, "hasActiveDevice")
  /\ homePlaylist' = Append(homePlaylist, pl)
  /\ homeSent' = Append(homeSent, 0)

\* line 191: onPress of a card
HomePress(pl) ==
  /\ Len(homePc) < MaxHandlers
  /\ CardEnabled
  /\ HandlerStart(pl)
  /\ UNCHANGED <<homeWire, currentMutation, isQueueing, alertModal>>
  /\ UNCHANGED <<apiVars, fetchVars, queueVars, runVars, shuffleFnVars, authVars, provVars, concVars>>

\* lines 53-62: hasActiveDevice() settles (it catches its errors and
\* answers false)
HomeDeviceChecked(h, hasDevice) ==
  /\ homePc[h] = "hasActiveDevice"
  /\ IF hasDevice
       THEN /\ homePc' = [homePc EXCEPT ![h] = "hasQueuedSongs"]
            /\ UNCHANGED alertModal
       ELSE /\ homePc' = [homePc EXCEPT ![h] = "returned"]
            /\ alertModal' = [isVisible |-> TRUE, type |-> "no-device",
                              pendingPlaylist |-> homePlaylist[h]]
  /\ UNCHANGED <<homePlaylist, homeSent, homeWire, currentMutation, isQueueing>>
  /\ UNCHANGED <<apiVars, fetchVars, queueVars, runVars, shuffleFnVars, authVars, provVars, concVars>>

\* spotify.ts line 704: hasQueuedSongs answers that the queue is empty
hasQueuedSongs == [hasQueue |-> FALSE, queueCount |-> 0]

\* lines 65-77, 85-95: hasQueuedSongs() settles; proceedWithShuffle shows the
\* overlay and calls mutate
HomeQueueChecked(h) ==
  /\ homePc[h] = "hasQueuedSongs"
  /\ IF hasQueuedSongs.hasQueue
       THEN /\ homePc' = [homePc EXCEPT ![h] = "returned"]
            /\ alertModal' = [isVisible |-> TRUE, type |-> "queue-not-empty",
                              pendingPlaylist |-> homePlaylist[h]]
            /\ UNCHANGED <<isQueueing, currentMutation>>
       ELSE /\ homePc' = [homePc EXCEPT ![h] = "pending"]
            /\ isQueueing' = TRUE
            /\ currentMutation' = h
            /\ UNCHANGED alertModal
  /\ UNCHANGED <<homePlaylist, homeSent, homeWire>>
  /\ UNCHANGED <<apiVars, fetchVars, queueVars, runVars, shuffleFnVars, authVars, provVars, concVars>>

\* lines 97-105: the primary action of the alert
HomeAlertPrimary ==
  /\ alertModal.isVisible
  /\ Len(homePc) < MaxHandlers
  /\ alertModal' = HiddenAlert
  /\ HandlerStart(alertModal.pendingPlaylist)
  /\ UNCHANGED <<homeWire, currentMutation, isQueueing>>
  /\ UNCHANGED <<apiVars, fetchVars, queueVars, runVars, shuffleFnVars, authVars, provVars, concVars>>

\* lines 107-109: the alert is closed
HomeAlertClose ==
  /\ alertModal.isVisible
  /\ alertModal' = HiddenAlert
  /\ UNCHANGED <<homePc, homePlaylist, homeSent, homeWire, currentMutation, isQueueing>>
  /\ UNCHANGED <<apiVars, fetchVars, queueVars, runVars, shuffleFnVars, authVars, provVars, concVars>>

HomeRequest(h, r) == [run |-> h, req |-> r]

\* useSpotifyQueries.ts lines 192, 211-214: the run returns false before any
\* player request; no event is emitted
HomeRunReturnsFalse(h) ==
  /\ homePc[h] = "pending"
  /\ homeSent[h] = 0
  /\ homePc' = [homePc EXCEPT ![h] = "settled"]
  /\ UNCHANGED <<homePlaylist, homeSent, homeWire, currentMutation, isQueueing, alertModal>>
  /\ UNCHANGED <<apiVars, fetchVars, queueVars, runVars, shuffleFnVars, authVars, provVars, concVars>>

\* useSpotifyQueries.ts lines 271-283: the run rejects before its play
\* request was answered; onError emits an event with isQueueing false
HomeRunRejects(h) ==
  /\ homePc[h] = "pending"
  /\ homeSent[h] <= 1
  /\ homePc' = [homePc EXCEPT ![h] = "settled"]
  /\ isQueueing' = FALSE
  /\ UNCHANGED <<homePlaylist, homeSent, homeWire, currentMutation, alertModal>>
  /\ UNCHANGED <<apiVars, fetchVars, queueVars, runVars, shuffleFnVars, authVars, provVars, concVars>>

\* useSpotifyQueries.ts line 216: the run sends its play request
HomeRunPlay(h) ==
  /\ homePc[h] = "pending"
  /\ homeSent[h] = 0
  /\ homeSent' = [homeSent EXCEPT ![h] = 1]
  /\ homeWire' = Append(homeWire, HomeRequest(h, "playUris"))
  /\ UNCHANGED <<homePc, homePlaylist, currentMutation, isQueueing, alertModal>>
  /\ UNCHANGED <<apiVars, fetchVars, queueVars, runVars, shuffleFnVars, authVars, provVars, concVars>>

\* useSpotifyQueries.ts lines 223-242: the run sends a queue request; the
\* events before and after it carry isQueueing true
HomeRunQueue(h) ==
  /\ homePc[h] = "pending"
  /\ homeSent[h] >= 1
  /\ homeSent[h] <= HomeQueueLen
  /\ homeSent' = [homeSent EXCEPT ![h] = @ + 1]
  /\ homeWire' = Append(homeWire, HomeRequest(h, "addToQueue"))
  /\ isQueueing' = TRUE
  /\ UNCHANGED <<homePc, homePlaylist, currentMutation, alertModal>>
  /\ UNCHANGED <<apiVars, fetchVars, queueVars, runVars, shuffleFnVars, authVars, provVars, concVars>>

\* useSpotifyQueries.ts lines 253-269: the final event, and the run returns
\* true
HomeRunReturnsTrue(h) ==
  /\ homePc[h] = "pending"
  /\ homeSent[h] = HomeQueueLen + 1
  /\ homePc' = [homePc EXCEPT ![h] = "settled"]
  /\ isQueueing' = FALSE
  /\ UNCHANGED <<homePlaylist, homeSent, homeWire, currentMutation, alertModal>>
  /\ UNCHANGED <<apiVars, fetchVars, queueVars, runVars, shuffleFnVars, authVars, provVars, concVars>>

InitHome ==
  /\ store = [access |-> 1, refresh |-> 1, expiry |-> 0, verifier |-> 0]
  /\ ApiIdle
  /\ FetchIdle
  /\ QueueIdle
  /\ RunIdle
  /\ AuxIdle

NextHome ==
  \/ \E pl \in HomePlaylists : HomePress(pl)
  \/ \E h \in DOMAIN homePc : \E hasDevice \in BOOLEAN : HomeDeviceChecked(h, hasDevice)
  \/ \E h \in DOMAIN homePc : HomeQueueChecked(h)
  \/ HomeAlertPrimary
  \/ HomeAlertClose
  \/ \E h \in DOMAIN homePc : HomeRunReturnsFalse(h)
  \/ \E h \in DOMAIN homePc : HomeRunRejects(h)
  \/ \E h \in DOMAIN homePc : HomeRunPlay(h)
  \/ \E h \in DOMAIN homePc : HomeRunQueue(h)
  \/ \E h \in DOMAIN homePc : HomeRunReturnsTrue(h)

SpecHome == InitHome /\ [][NextHome]_vars

\* the steps the program takes by itself: promises that settle and requests
\* that are sent (the presses of the user are not among them)
HomeProgramStep ==
  \E h \in DOMAIN homePc :
    \/ \E hasDevice \in BOOLEAN : HomeDeviceChecked(h, hasDevice)
    \/ HomeQueueChecked(h)
    \/ HomeRunReturnsFalse(h)
    \/ HomeRunRejects(h)
    \/ HomeRunPlay(h)
    \/ HomeRunQueue(h)
    \/ HomeRunReturnsTrue(h)

\* every promise of the home screen settles in the end
SpecHomeFair == SpecHome /\ WF_vars(HomeProgramStep)

(***************************************************************************)
(* Sign-in and sign-out (src/utils/spotify.ts, and the exchangeCodeForToken *)
(* of the redirect screen), one step per await.  A sign-in starts when no   *)
(* other sign-in and no logout is running, and a logout when no sign-in is  *)
(* running: the screens offer one or the other.                            *)
(***************************************************************************)
MaxAuth == 2

MaxObserved == 2

\* the variables of makeApiCall that sign-in and sign-out leave alone
apiCallVars == <<now, calls, apiPc, apiArgs, accessToken, attempt, refreshFor,
                 apiTrace, apiResult>>

authFrame == <<apiCallVars, fetchVars, queueVars, runVars, shuffleFnVars, homeVars,
               provVars, concVars>>

\* the value getItem answers null for
Absent(key) == IF key = "expiry" THEN -1 ELSE 0

NoCredentials == [access |-> 0, refresh |-> 0, expiry |-> -1, verifier |-> 0]

\* the keys of st that hold a value
Present(st) == { key \in DOMAIN st : st[key] # Absent(key) }

\* one store operation that removes the keys
Remove(st, keys) ==
  [access |-> IF "access" \in keys THEN Absent("access") ELSE st.access,
   refresh |-> IF "refresh" \in keys THEN Absent("refresh") ELSE st.refresh,
   expiry |-> IF "expiry" \in keys THEN Absent("expiry") ELSE st.expiry,
   verifier |-> IF "verifier" \in keys THEN Absent("verifier") ELSE st.verifier]

\* line 194: the keys logout names
LogoutKeys == <<"access", "refresh", "verifier", "expiry">>

\* one removeItem per key
RemoveItemEach(keys) == [i \in 1..Len(keys) |-> {keys[i]}]

\* line 194: AsyncStorage.multiRemove(keys) is one operation of the store
MultiRemove(keys) == << {keys[i] : i \in 1..Len(keys)} >>

AuthEvent(e, v, r, c) == [ev |-> e, verifier |-> v, value |-> r, case |-> c]

\* line 91: generateRandomString(64), a verifier never generated before
NewVerifier == 1 + Cardinality({ i \in DOMAIN authLog : authLog[i].ev = "generate" })

\* the function returns: what it returned, and on which path
AuthReturns(log, value, case) ==
  /\ authLog' = Append(log, AuthEvent("return", 0, value, case))
  /\ authPc' = "returned"

\* lines 78-107: authenticate stores a new verifier and opens the session
Authenticate ==
  /\ authPc = "idle"
  /\ logoutPc \in {"idle", "done"}
  /\ authCalls < MaxAuth
  /\ authCalls' = authCalls + 1
  /\ authVariant' = "service"
  /\ store' = [store EXCEPT !.verifier = NewVerifier]
  /\ authLog' = Append(authLog, AuthEvent("generate", NewVerifier, FALSE, ""))
  /\ authPc' = "session"
  /\ UNCHANGED <<issued, authData, authSnap, logoutPc, logoutPlan, logoutBefore, observed>>
  /\ UNCHANGED authFrame

\* what openAuthSessionAsync settles with: a redirect with a code, a
\* redirect without one, a dismissed session, a rejection
SessionResults == {"code", "nocode", "dismiss", "throw"}

\* lines 109-122
SessionResult(r) ==
  /\ authPc = "session"
  /\ IF r = "code"
       THEN /\ authPc' = "getVerifier"
            /\ authSnap' = store
            /\ UNCHANGED authLog
       ELSE /\ AuthReturns(authLog, FALSE, "noCode")
            /\ UNCHANGED authSnap
  /\ UNCHANGED <<store, issued, authVariant, authData, authCalls,
                 logoutPc, logoutPlan, logoutBefore, observed>>
  /\ UNCHANGED authFrame

\* part_000 lines 19-48: the redirect screen is shown with a code
RedirectCallback ==
  /\ authPc = "idle"
  /\ logoutPc \in {"idle", "done"}
  /\ authCalls < MaxAuth
  /\ authCalls' = authCalls + 1
  /\ authVariant' = "redirect"
  /\ authPc' = "getVerifier"
  /\ authSnap' = store
  /\ UNCHANGED <<store, issued, authData, authLog, logoutPc, logoutPlan,
                 logoutBefore, observed>>
  /\ UNCHANGED authFrame

\* lines 128-146 (part_000 lines 72-93): the verifier is read and the token
\* request is sent with it
ExchangeGetVerifier ==
  /\ authPc = "getVerifier"
  /\ IF store.verifier = Absent("verifier")
       THEN AuthReturns(authLog, FALSE, "noVerifier")
       ELSE /\ authLog' = Append(authLog, AuthEvent("tokenRequest", store.verifier, FALSE, ""))
            /\ authPc' = "tokenWait"
  /\ UNCHANGED <<store, issued, authVariant, authData, authSnap, authCalls,
                 logoutPc, logoutPlan, logoutBefore, observed>>
  /\ UNCHANGED authFrame

\* a response that is always taken to carry a token
HasAccessTokenAlways(data) == TRUE

\* line 150 (part_000 line 97): data.access_token is truthy
HasAccessToken(data) == data.access

\* lines 134-150, 161-165 (part_000 lines 81-97, 111-118): fetch and
\* response.json() settle
ExchangeResponse(tr) ==
  /\ authPc = "tokenWait"
  /\ IF tr.kind = "neterr"
       THEN AuthReturns(authLog, FALSE, "requestError") /\ UNCHANGED <<issued, authData>>
       ELSE IF HasAccessToken(tr)
         THEN /\ authData' = tr
              /\ issued' = issued + 1
              /\ authPc' = "setAccess"
              /\ UNCHANGED authLog
         ELSE AuthReturns(authLog, FALSE, "noAccessToken") /\ UNCHANGED <<issued, authData>>
  /\ UNCHANGED <<store, authVariant, authSnap, authCalls,
                 logoutPc, logoutPlan, logoutBefore, observed>>
  /\ UNCHANGED authFrame

\* line 151 (part_000 line 98)
ExchangeSetAccess ==
  /\ authPc = "setAccess"
  /\ store' = [store EXCEPT !.access = issued]
  /\ authPc' = "setRefresh"
  /\ UNCHANGED <<issued, authVariant, authData, authLog, authSnap, authCalls,
                 logoutPc, logoutPlan, logoutBefore, observed>>
  /\ UNCHANGED authFrame

\* the text a store keeps for the value undefined
UndefinedText == -2

\* what setItem(key, undefined) does: the store keeps the text "undefined",
\* or keeps nothing, or rejects
SetUndefinedOutcomes == {"text", "nothing", "rejects"}

\* line 152: setRefreshToken(data.refresh_token), whatever the field holds;
\* part_000 lines 99-101: only when the field is there
ExchangeSetRefresh(o) ==
  /\ authPc = "setRefresh"
  /\ IF authData.refresh
       THEN /\ o = "text"
            /\ store' = [store EXCEPT !.refresh = issued]
            /\ authPc' = "setExpiry"
            /\ UNCHANGED authLog
       ELSE IF authVariant = "redirect"
         THEN /\ o = "text"
              /\ authPc' = "setExpiry"
              /\ UNCHANGED <<store, authLog>>
         ELSE IF o = "rejects"
           THEN AuthReturns(authLog, FALSE, "storeError") /\ UNCHANGED store
           ELSE /\ store' = IF o = "text" THEN [store EXCEPT !.refresh = UndefinedText]
                                        ELSE store
                /\ authPc' = "setExpiry"
                /\ UNCHANGED authLog
  /\ UNCHANGED <<issued, authVariant, authData, authSnap, authCalls,
                 logoutPc, logoutPlan, logoutBefore, observed>>
  /\ UNCHANGED authFrame

\* lines 153-154: the expiry, or 0 without expires_in; part_000 lines
\* 102-105: nothing is written without expires_in
ExchangeSetExpiry ==
  /\ authPc = "setExpiry"
  /\ store' = IF authData.expires # 0
                THEN [store EXCEPT !.expiry = now + (authData.expires - 30) * 1000]
                ELSE IF authVariant = "redirect" THEN store
                ELSE [store EXCEPT !.expiry = 0]
  /\ authPc' = "removeVerifier"
  /\ UNCHANGED <<issued, authVariant, authData, authLog, authSnap, authCalls,
                 logoutPc, logoutPlan, logoutBefore, observed>>
  /\ UNCHANGED authFrame

\* lines 157-159 (part_000 lines 108-110)
ExchangeRemoveVerifier ==
  /\ authPc = "removeVerifier"
  /\ store' = Remove(store, {"verifier"})
  /\ AuthReturns(authLog, TRUE, "stored")
  /\ UNCHANGED <<issued, authVariant, authData, authSnap, authCalls,
                 logoutPc, logoutPlan, logoutBefore, observed>>
  /\ UNCHANGED authFrame

\* the caller has the result
AuthDone ==
  /\ authPc = "returned"
  /\ authPc' = "idle"
  /\ UNCHANGED <<store, issued, authVariant, authData, authLog, authSnap, authCalls,
                 logoutPc, logoutPlan, logoutBefore, observed>>
  /\ UNCHANGED authFrame

\* lines 193-194: logout calls multiRemove
LogoutCall ==
  /\ authPc = "idle"
  /\ logoutPc = "idle"
  /\ logoutPc' = "multiRemove"
  /\ logoutPlan' = MultiRemove(LogoutKeys)
  /\ logoutBefore' = store
  /\ UNCHANGED <<store, issued, authPc, authVariant, authData, authLog, authSnap,
                 authCalls, observed>>
  /\ UNCHANGED authFrame

\* the store performs the next removal
LogoutRemove ==
  /\ logoutPc = "multiRemove"
  /\ logoutPlan # <<>>
  /\ store' = Remove(store, Head(logoutPlan))
  /\ logoutPlan' = Tail(logoutPlan)
  /\ UNCHANGED <<issued, authPc, authVariant, authData, authLog, authSnap,
                 authCalls, logoutPc, logoutBefore, observed>>
  /\ UNCHANGED authFrame

\* line 195: the promise of multiRemove resolves and logout returns
LogoutReturn ==
  /\ logoutPc = "multiRemove"
  /\ logoutPlan = <<>>
  /\ logoutPc' = "done"
  /\ UNCHANGED <<store, issued, authPc, authVariant, authData, authLog, authSnap,
                 authCalls, logoutPlan, logoutBefore, observed>>
  /\ UNCHANGED authFrame

\* a reader reads the four keys while logout runs
Observe ==
  /\ logoutPc = "multiRemove"
  /\ Len(observed) < MaxObserved
  /\ observed' = Append(observed, store)
  /\ UNCHANGED <<store, issued, authPc, authVariant, authData, authLog, authSnap,
                 authCalls, logoutPc, logoutPlan, logoutBefore>>
  /\ UNCHANGED authFrame

\* the store before a sign-in: as after a login or a logout, with or without
\* the verifier of an earlier attempt
AuthStores ==
  { [access |-> 1, refresh |-> 1, expiry |-> T0 + (Lifetime - 30) * 1000, verifier |-> 0],
    [access |-> 1, refresh |-> 0, expiry |-> 0, verifier |-> 0],
    NoCredentials }

InitAuth ==
  /\ store \in AuthStores
  /\ ApiIdle
  /\ FetchIdle
  /\ QueueIdle
  /\ RunIdle
  /\ AuxIdle

NextAuth ==
  \/ Authenticate
  \/ \E r \in SessionResults : SessionResult(r)
  \/ RedirectCallback
  \/ ExchangeGetVerifier
  \/ \E tr \in TokenResponses : ExchangeResponse(tr)
  \/ ExchangeSetAccess
  \/ \E o \in SetUndefinedOutcomes : ExchangeSetRefresh(o)
  \/ ExchangeSetExpiry
  \/ ExchangeRemoveVerifier
  \/ AuthDone
  \/ LogoutCall
  \/ LogoutRemove
  \/ LogoutReturn
  \/ Observe

SpecAuth == InitAuth /\ [][NextAuth]_vars

(***************************************************************************)
(* SpotifyProvider (src/contexts/SpotifyContext.tsx) and the saved-tracks   *)
(* query (useSpotifySavedTracks).  A step is one settled query or one       *)
(* handler, together with the render and the effects that follow it.        *)
(***************************************************************************)
MaxProvSteps == 5

provFrame == <<apiVars, fetchVars, queueVars, runVars, shuffleFnVars, homeVars, authVars,
               concVars>>

\* what the playlists query can deliver, in the order of the server
FetchedPlaylists ==
  LET p1 == [id |-> "p1", uri |-> "spotify:playlist:p1"]
      p2 == [id |-> "p2", uri |-> "spotify:playlist:p2"]
  IN  { <<>>, <<p1>>, <<p1, p2>>, <<p2, p1>> }

\* the liked songs after the fetched playlists
AllPlaylistsLikedLast(user, playlists) ==
  IF user = "" THEN playlists ELSE playlists \o << LikedSongs >>

\* lines 65-114: likedSongsPlaylist (its id and uri) and allPlaylistsWithLiked
allPlaylistsWithLiked(user, playlists) ==
  IF user = "" THEN playlists ELSE << LikedSongs >> \o playlists

\* the items of the first page of the saved tracks, 0 for a track that is
\* null
SavedPages == { <<>>, <<7, 0, 9>> }

\* spotify.ts lines 438-461, 516-524: getUserSavedTracks when the
\* collection fits the first page
SavedTracksResult(sc, items) ==
  LET outcome == ApiOutcome(sc)
  IN  IF outcome.kind = "throw" THEN FetchCatch("saved", outcome.msg)
      ELSE IF outcome.kind # "value" THEN Returned(<<>>)
      ELSE Returned(FilterNull(items))

\* useSpotifyQueries.ts lines 47-59: queryFn
SavedQueryFn(result) ==
  IF result.kind = "throw" /\ Includes(result.msg, ScopePattern)
    THEN Returned(<<>>)
    ELSE result

\* the answer that decided the call refused for want of scope
ScopeRefused(sc) ==
  LET r == IF sc.first.status = 401 /\ sc.refreshed THEN sc.retry ELSE sc.first
  IN  r.status = 403 /\ Includes(ErrorData(r), ScopePattern)

\* lines 54-62: the effect, run when one of its dependencies has changed
ReauthEffect(isAuthenticated, error, savedLen, flag) ==
  IF isAuthenticated /\ Includes(error, ScopePattern) THEN TRUE
  ELSE IF isAuthenticated /\ savedLen > 0 THEN FALSE
  ELSE flag

ReauthDeps(user, error, data) == << user # "", error, Len(data) >>

\* the needsReauth state after the render that follows a step
AfterRender(user, error, data) ==
  IF ReauthDeps(user, error, data) # ReauthDeps(provUser, savedError, savedData)
    THEN ReauthEffect(user # "", error, Len(data), needsReauth)
    ELSE needsReauth

ProvStep ==
  /\ provSteps < MaxProvSteps
  /\ provSteps' = provSteps + 1

\* lines 36-37: the user query delivers the user
ProvUserLoaded ==
  /\ ProvStep
  /\ provUser = ""
  /\ provUser' = "u1"
  /\ needsReauth' = AfterRender("u1", savedError, savedData)
  /\ UNCHANGED <<provPlaylists, savedData, savedError, scopeDenied, provContext>>
  /\ UNCHANGED provFrame

\* line 39: the playlists query delivers the playlists
ProvPlaylistsLoaded(list) ==
  /\ ProvStep
  /\ provUser # ""
  /\ provPlaylists' = list
  /\ UNCHANGED <<provUser, savedData, savedError, needsReauth, scopeDenied, provContext>>
  /\ UNCHANGED provFrame

\* lines 42-47: the saved-tracks query settles; data is kept when it fails
SavedQuerySettles(sc, items) ==
  /\ ProvStep
  /\ provUser # ""
  /\ LET q == SavedQueryFn(SavedTracksResult(sc, items))
         data == IF q.kind = "return" THEN q.value ELSE savedData
         error == IF q.kind = "return" THEN <<>> ELSE q.msg
     IN  /\ savedData' = data
         /\ savedError' = error
         /\ needsReauth' = AfterRender(provUser, error, data)
         /\ scopeDenied' = IF ScopeRefused(sc) THEN TRUE
                           ELSE IF q.kind = "return" /\ Len(q.value) > 0 THEN FALSE
                           ELSE scopeDenied
  /\ UNCHANGED <<provUser, provPlaylists, provContext>>
  /\ UNCHANGED provFrame

\* lines 116-121: login after authenticate() answered true
ProvLoginSucceeds ==
  /\ ProvStep
  /\ provUser' = "u1"
  /\ needsReauth' = FALSE
  /\ scopeDenied' = FALSE
  /\ UNCHANGED <<provPlaylists, savedData, savedError, provContext>>
  /\ UNCHANGED provFrame

\* index.tsx lines 180-191, useSpotifyQueries.ts line 209: the card at place
\* i is pressed and the run computes its playlistUri
ProvCardPressed(i) ==
  /\ ProvStep
  /\ i \in DOMAIN allPlaylistsWithLiked(provUser, provPlaylists)
  /\ provContext' = PlaylistUri(allPlaylistsWithLiked(provUser, provPlaylists)[i])
  /\ UNCHANGED <<provUser, provPlaylists, savedData, savedError, needsReauth, scopeDenied>>
  /\ UNCHANGED provFrame

InitProv ==
  /\ store = [access |-> 1, refresh |-> 1, expiry |-> 0, verifier |-> 0]
  /\ ApiIdle
  /\ FetchIdle
  /\ QueueIdle
  /\ RunIdle
  /\ AuxIdle

NextProv ==
  \/ ProvUserLoaded
  \/ \E list \in FetchedPlaylists : ProvPlaylistsLoaded(list)
  \/ \E sc \in PageScenarios, items \in SavedPages : SavedQuerySettles(sc, items)
  \/ ProvLoginSucceeds
  \/ \E i \in 1..3 : ProvCardPressed(i)

SpecProv == InitProv /\ [][NextProv]_vars

(***************************************************************************)
(* Several invocations of makeApiCall at once (the page requests of one    *)
(* window of getPlaylistTracks, spotify.ts lines 394-416), and logout       *)
(* while they run.  The invocations share the credential store only.        *)
(***************************************************************************)
concFrame == <<now, calls, apiPc, apiArgs, accessToken, attempt, refreshFor, apiTrace,
               apiResult, fetchVars, queueVars, runVars, shuffleFnVars, homeVars,
               authVars, provVars>>

\* the invocations whose token request has not been answered
RefreshInFlight == { c \in Callers : conPc[c] = "refreshWait" }

\* the statuses the provider answers a page request with
ConStatuses == {200, 401}

\* the answers of the token endpoint: a refusal, a new access token, a new
\* access token with a new refresh token
ConTokenResponses ==
  { TokenResp("json", FALSE, FALSE, 0),
    TokenResp("json", TRUE, FALSE, Lifetime),
    TokenResp("json", TRUE, TRUE, Lifetime) }

\* lines 232-236: the invocation reads the access token
ConStart(c) ==
  /\ conPc[c] = "idle"
  /\ conPc' = [conPc EXCEPT ![c] = IF HasToken(store.access) THEN "expiry" ELSE "done"]
  /\ UNCHANGED <<store, issued, conSite, conSent, conStale, conLogout>>
  /\ UNCHANGED concFrame

\* lines 239-243: the proactive check
ConCheckExpiry(c) ==
  /\ conPc[c] = "expiry"
  /\ IF TokenExpired(store.expiry, now)
       THEN /\ conPc' = [conPc EXCEPT ![c] = "refresh"]
            /\ conSite' = [conSite EXCEPT ![c] = "expiry"]
       ELSE /\ conPc' = [conPc EXCEPT ![c] = "fetch"]
            /\ UNCHANGED conSite
  /\ UNCHANGED <<store, issued, conSent, conStale, conLogout>>
  /\ UNCHANGED concFrame

\* lines 197-209: refreshAccessToken reads the refresh token and sends it
ConRefreshBegin(c) ==
  /\ conPc[c] = "refresh"
  /\ IF store.refresh = 0
       THEN /\ conPc' = [conPc EXCEPT ![c] = ResumePc(conSite[c], FALSE)]
            /\ UNCHANGED conSent
       ELSE /\ conPc' = [conPc EXCEPT ![c] = "refreshWait"]
            /\ conSent' = [conSent EXCEPT ![c] = store.refresh]
  /\ UNCHANGED <<store, issued, conSite, conStale, conLogout>>
  /\ UNCHANGED concFrame

\* lines 210-229: the token response arrives and is stored
ConRefreshResponse(c, tr) ==
  /\ conPc[c] = "refreshWait"
  /\ IF RefreshSucceeds(tr)
       THEN /\ store' = RefreshStore(store, tr, now, issued + 1)
            /\ issued' = issued + 1
       ELSE UNCHANGED <<store, issued>>
  /\ conSent' = [conSent EXCEPT ![c] = 0]
  /\ conPc' = [conPc EXCEPT ![c] = ResumePc(conSite[c], RefreshSucceeds(tr))]
  /\ UNCHANGED <<conSite, conStale, conLogout>>
  /\ UNCHANGED concFrame

\* lines 245-253, 282-290: the request is sent
ConSendRequest(c) ==
  /\ conPc[c] = "fetch"
  /\ conPc' = [conPc EXCEPT ![c] = "await"]
  /\ UNCHANGED <<store, issued, conSite, conSent, conStale, conLogout>>
  /\ UNCHANGED concFrame

\* lines 255-316: the answer; a 401 to the first request calls
\* refreshAccessToken, every other answer ends the invocation
ConResponse(c, status) ==
  /\ conPc[c] = "await"
  /\ IF status = 401 /\ conSite[c] # "401"
       THEN /\ conPc' = [conPc EXCEPT ![c] = "refresh"]
            /\ conSite' = [conSite EXCEPT ![c] = "401"]
       ELSE /\ conPc' = [conPc EXCEPT ![c] = "done"]
            /\ UNCHANGED conSite
  /\ UNCHANGED <<store, issued, conSent, conStale, conLogout>>
  /\ UNCHANGED concFrame

\* lines 193-195: logout, one multiRemove
ConLogout ==
  /\ ~conLogout
  /\ store' = Remove(store, {LogoutKeys[i] : i \in DOMAIN LogoutKeys})
  /\ conLogout' = TRUE
  /\ conStale' = RefreshInFlight
  /\ UNCHANGED <<issued, conPc, conSite, conSent>>
  /\ UNCHANGED concFrame

\* a store whose access token has expired, and one without a known expiry
ConcStores ==
  { [access |-> 1, refresh |-> 1, expiry |-> Lifetime, verifier |-> 0],
    [access |-> 1, refresh |-> 1, expiry |-> 0, verifier |-> 0] }

InitConc ==
  /\ store \in ConcStores
  /\ ApiIdle
  /\ FetchIdle
  /\ QueueIdle
  /\ RunIdle
  /\ AuxIdle

NextConc ==
  \/ \E c \in Callers : ConStart(c)
  \/ \E c \in Callers : ConCheckExpiry(c)
  \/ \E c \in Callers : ConRefreshBegin(c)
  \/ \E c \in Callers : \E tr \in ConTokenResponses : ConRefreshResponse(c, tr)
  \/ \E c \in Callers : ConSendRequest(c)
  \/ \E c \in Callers : \E status \in ConStatuses : ConResponse(c, status)
  \/ ConLogout

SpecConc == InitConc /\ [][NextConc]_vars

(***************************************************************************)
(* Properties of makeApiCall (checked under SpecApi).                      *)
(***************************************************************************)
IsEv(e, kind) == e.ev = kind

ApiRequests == SelectSeq(apiTrace, LAMBDA e : IsEv(e, "request"))

ApiResponses == SelectSeq(apiTrace, LAMBDA e : IsEv(e, "response"))

\* positions of the trace holding an event of the given kind
Positions(kind) == { i \in DOMAIN apiTrace : apiTrace[i].ev = kind }

FirstResponsePos == CHOOSE i \in Positions("response") :
                      \A j \in Positions("response") : i <= j

ApiFinished == apiPc \in {"done", "idle"} /\ calls > 0

LastResponse == ApiResponses[Len(ApiResponses)]

\* the refresh that follows the first response succeeded
Refreshed401 ==
  \E i \in Positions("tokenResponse") :
    i > FirstResponsePos /\ apiTrace[i].status = 200

SameRequest(a, b) == a.url = b.url /\ a.method = b.method /\ a.body = b.body

\* C1: a 401 answer to the first request is followed by exactly one call of
\* refreshAccessToken and, when it succeeds, by exactly one re-issue of the
\* same request (url, method, body); after the answer to the retried request
\* the call makes no refresh and no request: at most two requests per call.
C1_OneRefreshOneRetry ==
  /\ Len(ApiRequests) <= 2
  /\ Len(ApiResponses) <= 2
  /\ Positions("response") # {} =>
       LET f == FirstResponsePos
           after == { i \in Positions("refreshCall") : i > f }
       IN  /\ Cardinality(after) <= 1
           /\ apiTrace[f].status # 401 =>
                f = Len(apiTrace) /\ ApiFinished /\ Len(ApiRequests) = 1
           /\ apiTrace[f].status = 401 /\ f < Len(apiTrace) =>
                apiTrace[f + 1].ev = "refreshCall"
           /\ apiTrace[f].status = 401 /\ ApiFinished =>
                /\ Cardinality(after) = 1
                /\ Len(ApiRequests) = (IF Refreshed401 THEN 2 ELSE 1)
  /\ Len(ApiRequests) = 2 =>
       /\ SameRequest(ApiRequests[1], ApiRequests[2])
       /\ SameRequest(ApiRequests[1], apiArgs)
  /\ Len(ApiResponses) = 2 =>
       /\ apiTrace[Len(apiTrace)].ev = "response"
       /\ ApiFinished

\* a call whose retried request was answered with 401 again has returned
C1_Witness ==
  /\ apiPc = "done"
  /\ Len(ApiResponses) = 2
  /\ ApiResponses[1].status = 401
  /\ ApiResponses[2].status = 401
  /\ Len(ApiRequests) = 2

\* C2: a call that received 401 and whose refresh failed, or whose retried
\* request was answered with 401 again, surfaces an authentication failure
\* to its caller, distinguishable from the null of a 204 / non-JSON 200.
C2_AuthFailureSurfaces ==
  ( /\ ApiFinished
    /\ Len(ApiResponses) >= 1
    /\ ApiResponses[1].status = 401
    /\ \/ ~Refreshed401
       \/ (Len(ApiResponses) = 2 /\ ApiResponses[2].status = 401) )
  => apiResult.kind = "throw"

\* C3: without a stored access token the call throws 'No access token
\* available' to its caller and makes no request and no refresh attempt.
C3_NoTokenNoRequest ==
  (calls > 0 /\ accessToken = 0) =>
    /\ ApiFinished
    /\ apiResult = Outcome("throw", NoTokenMessage)
    /\ apiTrace = <<>>

C3_Witness ==
  /\ apiPc = "done"
  /\ calls > 0
  /\ store.access = 0
  /\ apiResult.kind = "throw"

\* C4: a 429 answer, to the first request or to the retried one, reaches the
\* caller as a thrown rate-limit error, never as null.
C4_RateLimitThrown ==
  \A i \in Positions("response") :
    apiTrace[i].status = 429 =>
      /\ ApiFinished
      /\ apiResult.kind = "throw"
      /\ Includes(apiResult.msg, RateLimitPattern)
      /\ Includes(apiResult.msg, <<"429">>)

\* the retried request was answered with 429
C4_Witness ==
  /\ apiPc = "done"
  /\ Len(ApiResponses) = 2
  /\ ApiResponses[2].status = 429
  /\ apiResult.kind = "throw"

\* C5: a 403 answer reporting insufficient client scope reaches the caller
\* as a distinguished insufficient-scope error, not as null.
C5_InsufficientScopeSurfaces ==
  ( /\ ApiFinished
    /\ Len(ApiResponses) >= 1
    /\ LastResponse.status = 403
    /\ Includes(LastResponse.msg, ScopePattern) )
  => /\ apiResult.kind = "throw"
     /\ Includes(apiResult.msg, ScopePattern)

\* C6: a non-2xx answer other than 401, 403 and 429, and a network error of
\* the request (status 0), make the call return null; it does not throw.
C6_OtherFailuresReturnNull ==
  ( /\ ApiFinished
    /\ Len(ApiResponses) >= 1
    /\ ~ResponseOk(LastResponse)
    /\ LastResponse.status \notin {401, 403, 429} )
  => apiResult = Outcome("null", <<>>)

\* a network error of the retried request
C6_Witness ==
  /\ apiPc = "done"
  /\ Len(ApiResponses) = 2
  /\ LastResponse.status = 0
  /\ apiResult.kind = "null"

(***************************************************************************)
(* Properties of the bulk fetch (checked under SpecFetch).                 *)
(***************************************************************************)
Total == Len(remote)

FetchReturned == fetchPc = "done" /\ fetchResult.kind = "return"

LaterPages == { p \in DOMAIN pageLog : p > 1 }

AllPagesOk == \A p \in DOMAIN pageLog : pageLog[p].state = "ok"

NoNullTrack == \A i \in DOMAIN remote : remote[i] # 0

\* the first page arrived and was full although more tracks exist
FirstPageFull ==
  /\ Len(pageLog) >= 1
  /\ pageLog[1].state = "ok"
  /\ pageLog[1].count = Limit

\* the first page held everything the provider has at offset 0
FirstPageComplete ==
  /\ Len(pageLog) >= 1
  /\ pageLog[1].count = Len(PageItems(remote, 0))

RECURSIVE PagesInOffsetOrder(_)
\* the slices of pages p, p+1, ... of the log: a page that succeeded gives
\* its non-null tracks, any other page gives nothing
PagesInOffsetOrder(p) ==
  IF p > Len(pageLog) THEN <<>>
  ELSE (IF pageLog[p].state = "ok"
          THEN FilterNull(SubSeq(PageItems(remote, pageLog[p].offset),
                                 1, pageLog[p].count))
          ELSE <<>>)
       \o PagesInOffsetOrder(p + 1)

\* C7: with page size 50 and a full first page reporting total T > 50, the
\* further page requests are exactly those at offsets 50, 100, ..., one each,
\* ceil((T-50)/50) of them; when every page succeeds and no track is null
\* the aggregate has T items; when T <= 50 no further page is requested.
C7_PaginationCount ==
  /\ \A p \in LaterPages : pageLog[p].offset = (p - 1) * Limit
  /\ (LaterPages # {}) => (Total > Limit /\ FirstPageFull)
  /\ (FetchReturned /\ FirstPageFull /\ Total > Limit) =>
       LET n == Len(pageLog) - 1
       IN  /\ Limit * n >= Total - Limit
           /\ Limit * (n - 1) < Total - Limit
  /\ (FetchReturned /\ Total <= Limit) => Len(pageLog) = 1
  /\ (FetchReturned /\ AllPagesOk /\ NoNullTrack /\ FirstPageComplete) =>
       Len(fetchResult.value) = Total

\* total = 137: two further pages, 137 items
C7_Witness ==
  /\ FetchReturned
  /\ Total = 137
  /\ Len(pageLog) = 3
  /\ pageLog[2].offset = 50
  /\ pageLog[3].offset = 100
  /\ Len(fetchResult.value) = 137

Outstanding == { p \in DOMAIN pageLog : pageLog[p].state = "pending" }

\* C8: at most 5 page requests are outstanding at any time, and no request
\* of a window is issued before every request of the earlier windows has
\* resolved; window numbers never decrease along the issue order.
C8_BoundedWindows ==
  /\ Cardinality(Outstanding) <= 5
  /\ \A p, q \in DOMAIN pageLog :
       pageLog[p].window < pageLog[q].window => pageLog[p].state # "pending"
  /\ \A p, q \in DOMAIN pageLog :
       p < q => pageLog[p].window <= pageLog[q].window
  /\ \A w \in 1..Len(pageLog) :
       Cardinality({ p \in DOMAIN pageLog : pageLog[p].window = w }) <= 5

\* the second window was issued after a first window of 5 requests
C8_Witness ==
  /\ fetchPc = "window"
  /\ Cardinality({ p \in DOMAIN pageLog : pageLog[p].window = 1 }) = 5
  /\ \E p \in DOMAIN pageLog : pageLog[p].window = 2 /\ pageLog[p].state = "pending"

\* C9: whatever the order in which the requests of a window complete, the
\* accumulated list is the concatenation of the pages in increasing offset
\* order; a fetch whose pages all succeed returns the non-null tracks of the
\* remote collection in the provider's order, so two such fetches agree.
C9_OffsetOrder ==
  /\ fetchPc \in {"delay", "done"} => tracks = PagesInOffsetOrder(1)
  /\ FetchReturned => fetchResult.value = tracks
  /\ (FetchReturned /\ AllPagesOk /\ FirstPageComplete) =>
        fetchResult.value = FilterNull(remote)

\* a window whose requests completed in reverse order
C9_Witness ==
  /\ FetchReturned
  /\ Total = 300
  /\ completion = <<5, 4, 3, 2, 1>>
  /\ AllPagesOk
  /\ fetchResult.value = FilterNull(remote)

SomeLaterPageFailed == \E p \in LaterPages : pageLog[p].state = "failed"

\* C10: a page request after the first that fails gives an empty slice and
\* does not abort the fetch: the fetch never throws because of it, every
\* page of the same and of the later windows is still requested, and the
\* result is the in-order concatenation of the pages that succeeded.
C10_FailedPageIsEmpty ==
  SomeLaterPageFailed =>
    /\ fetchResult.kind # "throw"
    /\ fetchPc = "done" =>
         /\ fetchResult.kind = "return"
         /\ Len(pageLog) - 1 = CeilDiv(Total - Limit, Limit)
         /\ \A p \in LaterPages : pageLog[p].state # "pending"
         /\ fetchResult.value = PagesInOffsetOrder(1)

\* a page of the first window failed and the second window still ran
C10_Witness ==
  /\ FetchReturned
  /\ Total = 301
  /\ Len(pageLog) = 7
  /\ pageLog[3].state = "failed"
  /\ pageLog[7].state = "ok"
  /\ Len(fetchResult.value) = 251

\* C11 as stated: a 429 answer on any page of a bulk fetch, the first page
\* included, degrades to an empty page; the fetch returns normally with the
\* items of the other pages and never throws because of the 429.
C11_RateLimitDegradesOnAnyPage ==
  sawLimit =>
    /\ fetchResult.kind # "throw"
    /\ fetchPc = "done" => fetchResult.value = PagesInOffsetOrder(1)

\* C11 (amended): a 429 answer on a page after the first degrades to an
\* empty page, the fetch returns normally with the items of the other pages;
\* a 429 answer on the first page (offset 0) ends the fetch at once with the
\* rate-limit error thrown to the caller.
C11_RateLimitLaterPagesOnly ==
  (sawLimit /\ Len(pageLog) >= 1) =>
    /\ pageLog[1].state = "ok" =>
         /\ fetchResult.kind # "throw"
         /\ fetchPc = "done" =>
              /\ fetchResult.kind = "return"
              /\ \A p \in LaterPages : pageLog[p].state # "pending"
              /\ Limit * (Len(pageLog) - 1) >= Total - Limit
              /\ fetchResult.value = PagesInOffsetOrder(1)
    /\ pageLog[1].state = "failed" =>
         /\ fetchPc = "done"
         /\ Len(pageLog) = 1
         /\ fetchResult.kind = "throw"
         /\ Includes(fetchResult.msg, RateLimitPattern)

\* the second of three pages was rate-limited, the other two were kept
C11_Witness ==
  /\ sawLimit
  /\ FetchReturned
  /\ Total = 137
  /\ Len(pageLog) = 3
  /\ pageLog[2].state = "failed"
  /\ pageLog[3].state = "ok"
  /\ NoNullTrack
  /\ Len(fetchResult.value) = 87

NullPositions == { i \in DOMAIN remote : remote[i] = 0 }

\* C12: the list returned by a bulk fetch holds no null track: null tracks
\* of the first page and of every later page are dropped, nothing else is,
\* and the remaining tracks keep the provider's order.
C12_NoNullTrack ==
  /\ \A i \in DOMAIN tracks : tracks[i] # 0
  /\ \A i \in DOMAIN fetchResult.value : fetchResult.value[i] # 0
  /\ \A i \in DOMAIN tracks : i > 1 => tracks[i - 1] < tracks[i]
  /\ (FetchReturned /\ AllPagesOk /\ FirstPageComplete) =>
       /\ Len(fetchResult.value) = Total - Cardinality(NullPositions)
       /\ \A i \in DOMAIN remote :
            remote[i] # 0 =>
              \E k \in DOMAIN fetchResult.value : fetchResult.value[k] = remote[i]

\* null tracks on the first page (23, 46) and on later pages (69, 92, 115)
C12_Witness ==
  /\ FetchReturned
  /\ Total = 137
  /\ AllPagesOk
  /\ Len(pageLog) = 3
  /\ NullPositions = {23, 46, 69, 92, 115}
  /\ Len(fetchResult.value) = 132

(***************************************************************************)
(* Properties of batchQueueTracks (checked under SpecQueue).               *)
(***************************************************************************)
QPositions(kind) == { k \in DOMAIN qLog : qLog[k].ev = kind }

\* the place of a track in the list handed to batchQueueTracks
PosOf(u) == CHOOSE k \in DOMAIN qTracks : qTracks[k] = u

FinalKinds == {"success", "gaveUp", "error"}

\* the log positions where the outcome of a track became final
FinalOutcomes(u) ==
  { k \in QPositions("outcome") : qLog[k].uri = u /\ qLog[k].kind \in FinalKinds }

QueueDone == qPc = "done" /\ Len(qTracks) > 0

\* the calls of addToQueue that have not settled
InFlight == Cardinality(QPositions("submit")) - Cardinality(QPositions("outcome"))

\* C13: at most one addToQueue call is in flight at any time; the tracks
\* are submitted in list order, none after a later one; the first attempt
\* for a track starts only after the outcome of every earlier track is
\* final; and a finished run has attempted every track.
C13_SequentialInOrder ==
  /\ InFlight \in {0, 1}
  /\ InFlight = 1 <=> qPc = "inflight"
  /\ \A k \in QPositions("submit") :
       /\ qLog[k].uri \in { qTracks[p] : p \in DOMAIN qTracks }
       /\ \A m \in QPositions("submit") :
            k < m => PosOf(qLog[k].uri) <= PosOf(qLog[m].uri)
       /\ \A p \in 1..(PosOf(qLog[k].uri) - 1) :
            \E f \in FinalOutcomes(qTracks[p]) : f < k
       /\ k > 1 => qLog[k - 1].ev # "submit"
  /\ QueueDone =>
       \A p \in DOMAIN qTracks : Cardinality(FinalOutcomes(qTracks[p])) = 1

C13_Witness ==
  /\ QueueDone /\ Len(qTracks) = 3
  /\ \E a, b, c \in DOMAIN qLog :
       /\ a < b /\ b < c
       /\ qLog[a].ev = "outcome" /\ qLog[a].uri = qTracks[1] /\ qLog[a].kind = "gaveUp"
       /\ qLog[b].ev = "outcome" /\ qLog[b].uri = qTracks[2] /\ qLog[b].kind = "error"
       /\ qLog[c].ev = "outcome" /\ qLog[c].uri = qTracks[3] /\ qLog[c].kind = "success"

\* the log positions where addToQueue was called for a track
Attempts(u) == { k \in QPositions("submit") : qLog[k].uri = u }

\* the waits the claim names: 1s, 2s, 4s before retries 1, 2, 3
NamedWaits == <<1000, 2000, 4000>>

\* C14: a track answered 429 is retried at most 3 times (4 attempts); the
\* wait before retry k is 1s, 2s, 4s for k = 1, 2, 3; a rate-limited 4th
\* attempt gives the track up with no further wait, and the run goes on
\* with the next track.
C14_BackoffSchedule ==
  /\ \A p \in DOMAIN qTracks : Cardinality(Attempts(qTracks[p])) <= 4
  /\ \A k \in QPositions("submit") :
       LET nth == Cardinality({ m \in Attempts(qLog[k].uri) : m < k })
       IN nth >= 1 =>
            /\ nth <= 3
            /\ qLog[k - 1].ev = "backoff" /\ qLog[k - 1].val = NamedWaits[nth]
            /\ qLog[k - 2].ev = "outcome" /\ qLog[k - 2].val = 429
            /\ qLog[k - 2].uri = qLog[k].uri
            /\ qLog[k - 3].ev = "submit" /\ qLog[k - 3].uri = qLog[k].uri
  /\ \A k \in QPositions("outcome") :
       qLog[k].val = 429 =>
         LET u == qLog[k].uri
             nth == Cardinality({ m \in Attempts(u) : m < k })
         IN /\ nth <= 3 => (k < Len(qLog) /\ qLog[k + 1].ev = "backoff"
                                          /\ qLog[k + 1].val = NamedWaits[nth])
            /\ nth = 4 =>
                 /\ k < Len(qLog) /\ qLog[k + 1].ev = "progress"
                 /\ \A m \in DOMAIN qLog : m > k => qLog[m].ev # "backoff" \/ qLog[m].uri # u
                 /\ PosOf(u) < Len(qTracks) =>
                      /\ qPc = "done" => Attempts(qTracks[PosOf(u) + 1]) # {}
                      /\ qLog[k + 2].ev = "baseline"
                      /\ Len(qLog) > k + 2 =>
                           /\ qLog[k + 3].ev = "submit"
                           /\ qLog[k + 3].uri = qTracks[PosOf(u) + 1]
  /\ \A k \in QPositions("backoff") :
       qLog[k - 1].ev = "outcome" /\ qLog[k - 1].val = 429

C14_Witness ==
  /\ Len(qTracks) = 2 /\ Len(qLog) = 16
  /\ Cardinality(Attempts(qTracks[1])) = 4
  /\ qLog[3].val = 1000 /\ qLog[6].val = 2000 /\ qLog[9].val = 4000
  /\ qLog[11].ev = "outcome" /\ qLog[11].val = 429 /\ qLog[11].kind = "gaveUp"
  /\ qLog[12].ev = "progress"
  /\ qLog[14].ev = "submit" /\ qLog[14].uri = qTracks[2]
  /\ qLog[15].ev = "outcome"

\* the log positions where addToQueue threw an error that is no rate limit
\* (the call made without a stored token is the one that can)
OtherFailures == { k \in QPositions("outcome") : qLog[k].val = -1 }

\* C15: a submission failing with an error other than a 429 rate limit is
\* not retried: no attempt and no backoff wait for that track follows, the
\* progress report comes next and the run moves to the next track.
C15_NoRetryOnOtherError ==
  \A k \in OtherFailures :
    LET u == qLog[k].uri
    IN /\ \A m \in DOMAIN qLog :
            m > k => ~(qLog[m].uri = u /\ qLog[m].ev \in {"submit", "backoff"})
       /\ qLog[k - 1].ev = "submit" /\ qLog[k - 1].uri = u
       /\ (\A m \in QPositions("outcome") : m < k => qLog[m].uri # u)
            => Cardinality(Attempts(u)) = 1
       /\ k < Len(qLog) /\ qLog[k + 1].ev = "progress" /\ qLog[k + 1].uri = u
       /\ PosOf(u) < Len(qTracks) =>
            /\ qLog[k + 2].ev = "baseline"
            /\ Len(qLog) > k + 2 =>
                 qLog[k + 3].ev = "submit" /\ qLog[k + 3].uri = qTracks[PosOf(u) + 1]
            /\ qPc = "done" => Attempts(qTracks[PosOf(u) + 1]) # {}

C15_Witness ==
  /\ QueueDone /\ Len(qTracks) = 2 /\ Len(qLog) = 7
  /\ 2 \in OtherFailures /\ Attempts(qTracks[1]) = {1}
  /\ qLog[3].ev = "progress" /\ qLog[4].ev = "baseline"
  /\ qLog[5].ev = "submit" /\ qLog[5].uri = qTracks[2]
  /\ qLog[6].kind = "success"

\* the progress reports in the order they were made
ProgressReports == SelectSeq(qLog, LAMBDA e : e.ev = "progress")

\* C16: onProgress is called once after each track's final outcome, with
\* progress 1, 2, ..., n in that order and total n every time; a finished
\* run has made exactly n reports, the last one with progress n, however
\* many submissions failed.
C16_ProgressCountsAttempted ==
  /\ \A j \in DOMAIN ProgressReports :
       /\ ProgressReports[j].val = j
       /\ ProgressReports[j].total = Len(qTracks)
       /\ ProgressReports[j].uri = qTracks[j]
  /\ \A k \in QPositions("progress") :
       /\ qLog[k - 1].ev = "outcome" /\ qLog[k - 1].kind \in FinalKinds
       /\ qLog[k - 1].uri = qLog[k].uri
  /\ \A k \in QPositions("outcome") :
       qLog[k].kind \in FinalKinds => (k < Len(qLog) /\ qLog[k + 1].ev = "progress")
  /\ qPc = "done" =>
       /\ Len(ProgressReports) = Len(qTracks)
       /\ Len(qTracks) > 0 => qLog[Len(qLog)].ev = "progress"
                              /\ qLog[Len(qLog)].val = Len(qTracks)

C16_Witness ==
  /\ QueueDone /\ Len(qTracks) = 3 /\ Len(ProgressReports) = 3
  /\ qLog[Len(qLog)].val = 3
  /\ \E a, b \in QPositions("outcome") :
       /\ qLog[a].kind = "gaveUp" /\ qLog[a].uri = qTracks[2]
       /\ qLog[b].kind = "error" /\ qLog[b].uri = qTracks[3]

\* the log positions of the waits of one kind that belong to a track
WaitsOf(kind, u) == { k \in QPositions(kind) : qLog[k].uri = u }

\* C17: a baseline wait of 150 ms follows every track but the last, n-1 in
\* a finished run of n >= 1 tracks, whatever backoff waits the track had:
\* each retry of the track still had its own backoff wait.
C17_BaselineBetweenTracks ==
  /\ \A k \in QPositions("baseline") :
       /\ qLog[k].val = 150
       /\ qLog[k - 1].ev = "progress" /\ qLog[k - 1].uri = qLog[k].uri
       /\ PosOf(qLog[k].uri) < Len(qTracks)
  /\ \A k \in QPositions("progress") :
       IF PosOf(qLog[k].uri) < Len(qTracks)
         THEN k < Len(qLog) /\ qLog[k + 1].ev = "baseline"
         ELSE k = Len(qLog)
  /\ \A p \in DOMAIN qTracks :
       /\ Cardinality(WaitsOf("baseline", qTracks[p])) <= 1
       /\ WaitsOf("progress", qTracks[p]) # {} =>
            Cardinality(WaitsOf("backoff", qTracks[p]))
              = Cardinality(Attempts(qTracks[p])) - 1
  /\ QueueDone => Cardinality(QPositions("baseline")) = Len(qTracks) - 1

C17_Witness ==
  /\ QueueDone /\ Len(qTracks) = 3
  /\ Cardinality(QPositions("baseline")) = 2
  /\ Cardinality(WaitsOf("backoff", qTracks[1])) = 2
  /\ Cardinality(WaitsOf("baseline", qTracks[1])) = 1
  /\ Cardinality(WaitsOf("backoff", qTracks[3])) = 3
  /\ WaitsOf("baseline", qTracks[3]) = {}

(***************************************************************************)
(* Properties of the shuffle run (checked under SpecShuffle).              *)
(***************************************************************************)
RunPositions(kind) == { k \in DOMAIN runLog : runLog[k].ev = kind }

RunStarted == runPc # "idle"

\* the list the caller supplied is there, is not empty and has no null uri
SuppliedUsable ==
  /\ runLog[1].arg = "tracks"
  /\ Len(runLog[1].uris) > 0
  /\ \A i \in DOMAIN runLog[1].uris : runLog[1].uris[i] # 0

FetchCalls == RunPositions("getUserSavedTracks") \cup RunPositions("getPlaylistTracks")

\* C18: a supplied track list is used as is only when it is non-empty and
\* none of its tracks has a null uri; otherwise the list is fetched, through
\* getUserSavedTracks and never getPlaylistTracks for the liked-songs
\* entity, through getPlaylistTracks(playlist.id) for every other playlist.
C18_TrackResolution ==
  RunStarted =>
    /\ runLog[1].ev = "mutate"
    /\ SuppliedUsable =>
         /\ FetchCalls = {}
         /\ runTracks = runLog[1].uris
    /\ ~SuppliedUsable =>
         /\ FetchCalls = {2}
         /\ IF playlist.id = "liked-songs"
              THEN runLog[2].ev = "getUserSavedTracks"
              ELSE runLog[2].ev = "getPlaylistTracks" /\ runLog[2].arg = playlist.id
         /\ \A i \in DOMAIN runTracks : runTracks[i] = i
         /\ \A i \in DOMAIN freshShuffled : freshShuffled[i] \in 1..Len(runTracks)

C18_Witness ==
  /\ runPc = "done" /\ runResult.kind = "true"
  /\ playlist.id = "liked-songs"
  /\ runLog[1].uris = <<7, 0, 9>>
  /\ runLog[2].ev = "getUserSavedTracks"
  /\ RunPositions("getPlaylistTracks") = {}
  /\ runTracks = <<1, 2, 3>>

\* the fetch returned a list and the list is empty
ResolvedEmpty ==
  /\ runTracks = <<>>
  /\ \E k \in RunPositions("fetched") : runLog[k].arg = "return"

\* the calls and events that come after the resolution of the tracks
LaterCalls == {"getDevices", "openURL", "settle", "transferPlayback", "playUris", "event"}

\* C19: when the resolved track list is empty the run returns false: no
\* error is raised and there is no device poll, no transfer, no play
\* command, no queue submission and no progress event.
C19_EmptyIsNoOp ==
  ResolvedEmpty =>
    /\ runPc \in {"resolved", "done"}
    /\ runPc = "resolved" => runResult.kind = "none"
    /\ runPc = "done" => runResult.kind = "false"
    /\ \A k \in DOMAIN runLog : runLog[k].ev \notin LaterCalls
    /\ qLog = <<>> /\ qPc = "idle"
    /\ freshShuffled = <<>> /\ ensuredDeviceId = ""

C19_Witness ==
  /\ ResolvedEmpty /\ runPc = "done" /\ runResult.kind = "false"
  /\ Len(runLog) = 3 /\ runLog[1].uris = <<7, 0, 9>>

\* the run has entered batchQueueTracks
Draining ==
  runPc \in {"draining", "timer"} \/ (runPc = "done" /\ runResult.kind = "true")

Elements(seq) == { seq[i] : i \in DOMAIN seq }

\* the uris of the first attempts, in the order they were made
FirstAttempts == SelectSeq(qLog, LAMBDA e : e.ev = "submit" /\ e.val = 0)

SubmittedUris == [k \in DOMAIN FirstAttempts |-> FirstAttempts[k].uri]

\* how many tracks of a source of n the run hands to the provider
Submitted(n) == IF n < 150 THEN n ELSE 150

\* C20: a run on n >= 1 tracks that reaches the draining phase hands
\* min(n, 150) distinct positions of one permutation of the source to the
\* provider: position 1 through the play command, positions 2..min(n, 150)
\* through the queue in that order, never more than 149 of them.
C20_QueueIsPrefixOfShuffle ==
  Draining =>
    LET n == Len(runTracks)
    IN /\ n >= 1
       /\ Len(freshShuffled) = n
       /\ Elements(freshShuffled) = Elements(runTracks)
       /\ Cardinality(Elements(freshShuffled)) = n
       /\ \A k \in RunPositions("playUris") : runLog[k].uris = << freshShuffled[1] >>
       /\ Cardinality(RunPositions("playUris")) = 1
       /\ Len(qTracks) = Submitted(n) - 1
       /\ Len(qTracks) <= 149
       /\ qTracks = SubSeq(freshShuffled, 2, Submitted(n))
       /\ Cardinality(Elements(qTracks) \cup {freshShuffled[1]}) = Submitted(n)
       /\ Len(SubmittedUris) <= Len(qTracks)
       /\ SubmittedUris = SubSeq(qTracks, 1, Len(SubmittedUris))
       /\ qPc = "done" => SubmittedUris = qTracks

C20_Witness ==
  /\ runPc = "done" /\ runResult.kind = "true"
  /\ Len(runTracks) = 151 /\ freshShuffled # runTracks
  /\ Len(qTracks) = 149 /\ SubmittedUris = SubSeq(freshShuffled, 2, 150)
  /\ freshShuffled[1] # 1 /\ freshShuffled[2] # 2

(***************************************************************************)
(* Properties of trueRandomShuffle (checked under SpecShuffleFn).          *)
(***************************************************************************)
\* how often a value occurs in a sequence
Occurrences(seq, v) == Cardinality({ i \in DOMAIN seq : seq[i] = v })

\* C21: trueRandomShuffle returns a permutation of its input (same length,
\* same multiset of elements) and leaves the array of the caller as it was;
\* the index drawn at step i lies in 0..i.
C21_ShuffleIsPermutation ==
  shPc = "done" =>
    /\ Len(shResult) = Len(shInput)
    /\ \A v \in Elements(shInput) \cup Elements(shResult) :
         Occurrences(shResult, v) = Occurrences(shInput, v)
    /\ shArray = shInput
    /\ DOMAIN shSteps = 1..(Len(shInput) - 1)
    /\ \A i \in DOMAIN shSteps : shSteps[i] \in 0..i

C21_Witness ==
  /\ shPc = "done"
  /\ shInput = <<1, 2, 2, 1>> /\ shResult = <<2, 1, 1, 2>>
  /\ shSteps[3] = 1 /\ shSteps[2] = 0 /\ shSteps[1] = 1

InDeviceCheck == runPc \in {"poll1", "open", "settle", "poll2"}

\* the log positions of the answers to the device polls
Polled(kind) == { k \in RunPositions("polled") : runLog[k].arg = kind }

PlayerCalls == {"transferPlayback", "playUris"}

\* what holds of the device check in every state
DeviceCheckInvariant ==
  /\ Cardinality(RunPositions("getDevices")) <= 2
  /\ \A k \in RunPositions("getDevices") :
       IF \E m \in RunPositions("getDevices") : m < k
         THEN /\ runLog[k].arg = "second"
              /\ runLog[k - 1].ev = "settle" /\ runLog[k - 1].arg = "1500"
              /\ runLog[k - 2].ev \in OpenOutcomes
              /\ runLog[k - 3].ev = "polled" /\ runLog[k - 3].arg = "none"
              /\ runLog[k - 4].ev = "getDevices"
         ELSE runLog[k].arg = "first"
  /\ (RunPositions("getDevices") # {} /\ ~InDeviceCheck /\ Polled("devices") = {}) =>
       /\ ensuredDeviceId = ""
       /\ runPc = "done" /\ runResult.kind = "false"
       /\ \A k \in DOMAIN runLog : runLog[k].ev \notin PlayerCalls \cup {"event"}
       /\ qLog = <<>> /\ qPc = "idle"
  /\ \A k \in DOMAIN runLog :
       runLog[k].ev \in PlayerCalls => \E m \in Polled("devices") : m < k

\* C22: ensureActiveDevice polls the device list at most twice, the second
\* time only after the attempt to open the app and the wait of 1.5 s; when
\* no poll finds a device it returns undefined and the run returns false
\* with no transfer, play or queue request; the device check always ends.
C22_DeviceCheckBounded ==
  /\ []DeviceCheckInvariant
  /\ (InDeviceCheck ~> ~InDeviceCheck)

C22_Witness ==
  /\ runPc = "done" /\ runResult.kind = "false" /\ ensuredDeviceId = ""
  /\ Cardinality(RunPositions("getDevices")) = 2
  /\ Cardinality(Polled("none")) = 2
  /\ RunPositions("settle") # {}

\* the events with isQueueing = true, in the log of the run
QueueingEvents == { k \in RunPositions("event") : runLog[k].isQueueing }

\* C23: in a run that resolves a device the calls come in the order
\* transferPlayback to that device, one playUris with exactly the uri of
\* the first shuffled track, the initial progress event, the queue
\* submissions; nothing is submitted before playUris has returned.
C23_PlaybackBeforeQueue ==
  /\ \A k \in RunPositions("transferPlayback") :
       /\ ensuredDeviceId # "" /\ runLog[k].arg = ensuredDeviceId
       /\ runLog[k - 1].ev = "polled" /\ runLog[k - 1].arg = "devices"
       /\ \A m \in DOMAIN runLog : m < k => runLog[m].ev \notin {"playUris", "event"}
  /\ Cardinality(RunPositions("transferPlayback")) <= 1
  /\ Cardinality(RunPositions("playUris")) <= 1
  /\ \A k \in RunPositions("playUris") :
       /\ runLog[k].uris = << freshShuffled[1] >>
       /\ runLog[k].arg = ensuredDeviceId
       /\ runLog[k - 1].ev = "transferPlayback"
       /\ \A m \in QueueingEvents : m > k
  /\ \A k \in QueueingEvents :
       /\ runLog[k].progress = 0 <=> runLog[k - 1].ev = "playUris"
       /\ runLog[k].progress > 0 =>
            runLog[k - 1].ev = "event" /\ runLog[k - 1].progress = runLog[k].progress - 1
       /\ runLog[k].total = Len(qTracks)
  /\ (qPc # "idle" \/ qLog # <<>>) =>
       /\ runPc \in {"draining", "timer", "done"}
       /\ \E k \in RunPositions("playUris") :
            /\ k < Len(runLog)
            /\ runLog[k + 1].ev = "event" /\ runLog[k + 1].isQueueing
            /\ runLog[k + 1].progress = 0
  /\ runPc \in {"draining", "timer"} =>
       Cardinality(QueueingEvents) = 1 + Cardinality(QPositions("progress"))

C23_Witness ==
  /\ runPc = "done" /\ runResult.kind = "true" /\ Len(runTracks) = 3
  /\ ensuredDeviceId = "dev2"
  /\ \E k \in DOMAIN runLog :
       /\ runLog[k].ev = "transferPlayback" /\ runLog[k + 1].ev = "playUris"
       /\ runLog[k + 2].ev = "event" /\ runLog[k + 2].progress = 0
       /\ runLog[k + 3].ev = "event" /\ runLog[k + 3].progress = 1
  /\ Cardinality(QPositions("submit")) >= 2

\* the events with isQueueing = false, in the log of the run
IdleEvents == { k \in RunPositions("event") : ~runLog[k].isQueueing }

\* C24: a run that returns true emits, after the last pipeline progress
\* event, a final event with isQueueing false and progress = total = the
\* number of queued tracks; for a source of more than 150 tracks the event
\* carries a completion message and one further event, 2000 ms later,
\* repeats it with a null message; otherwise its message is null and no
\* event follows.
C24_FinalEvent ==
  runResult.kind = "true" =>
    /\ IdleEvents # {}
    /\ LET k == CHOOSE i \in IdleEvents : \A j \in IdleEvents : i <= j
           n == Len(qTracks)
       IN  /\ \A m \in QueueingEvents : m < k
           /\ runLog[k - 1].ev = "event" /\ runLog[k - 1].isQueueing
           /\ runLog[k - 1].progress = n
           /\ runLog[k].progress = n /\ runLog[k].total = n
           /\ n = Len(TracksToQueue(freshShuffled))
           /\ IF Len(runTracks) > MAX_QUEUE_SIZE
                THEN /\ runLog[k].message # NullMessage
                     /\ runLog[k + 1] = RunCall("setTimeout", "2000", <<>>)
                     /\ runPc = "timer" => Len(runLog) = k + 1
                     /\ runPc = "done" =>
                          /\ Len(runLog) = k + 2
                          /\ runLog[k + 2] = RunProgress(FALSE, n, n, NullMessage)
                ELSE /\ runLog[k].message = NullMessage
                     /\ Len(runLog) = k
                     /\ runPc = "done"

\* a long source: the message is shown and cleared
C24_Witness ==
  /\ runResult.kind = "true" /\ runPc = "done"
  /\ Len(runTracks) = 151 /\ Len(qTracks) = 149
  /\ runLog[Len(runLog)] = RunProgress(FALSE, 149, 149, NullMessage)
  /\ runLog[Len(runLog) - 2].message = <<"Queued", "150", "random", "songs">>

\* a short source: one final event without a message
C24_WitnessShort ==
  /\ runResult.kind = "true" /\ runPc = "done"
  /\ Len(runTracks) = 3
  /\ runLog[Len(runLog)] = RunProgress(FALSE, 2, 2, NullMessage)
  /\ runLog[Len(runLog) - 1].isQueueing

ErrorMessage == <<"An", "error", "occurred.">>

\* C25: a run that ends because the fetch of the tracks was cancelled emits
\* one event only, {isQueueing: false, progress: 0, total: 0, message:
\* null}, and never a failure message; a run that ends with any other
\* error emits last an event of that shape with message 'An error
\* occurred.'.
C25_CancelIsSilent ==
  /\ runResult.kind = "cancelled" =>
       /\ runLog[Len(runLog) - 1] = RunCall("fetched", "cancelled", <<>>)
       /\ RunPositions("event") = { Len(runLog) }
       /\ runLog[Len(runLog)] = RunProgress(FALSE, 0, 0, NullMessage)
  /\ runResult.kind = "throw" =>
       /\ runLog[Len(runLog)] = RunProgress(FALSE, 0, 0, ErrorMessage)
       /\ \A k \in RunPositions("event") :
            k < Len(runLog) => runLog[k].message # ErrorMessage
  /\ (\E k \in RunPositions("event") : runLog[k].message = ErrorMessage)
       => runResult.kind = "throw"
  /\ runResult.kind \in {"cancelled", "throw"} => runPc = "done" /\ qLog = <<>>

\* the fetch of a playlist's tracks was cancelled
C25_Witness ==
  /\ runResult.kind = "cancelled" /\ runPc = "done"
  /\ Len(runLog) = 4
  /\ runLog[2].ev = "getPlaylistTracks"
  /\ runLog[4] = RunProgress(FALSE, 0, 0, NullMessage)

\* the play request failed
C25_WitnessThrow ==
  /\ runResult.kind = "throw" /\ runLog[Len(runLog) - 1].ev = "playUris"
  /\ runLog[Len(runLog)].message = ErrorMessage

\* the places of the queue requests of run h on the wire
QueueRequests(h) ==
  { k \in DOMAIN homeWire : homeWire[k] = HomeRequest(h, "addToQueue") }

\* C26: the queue submissions of two runs never interleave: between the
\* first and the last addToQueue of a run started from the home screen no
\* other run issues a play or a queue request.
C26_RunsNeverInterleave ==
  \A h \in DOMAIN homePc :
    \A i \in QueueRequests(h) :
      \A j \in DOMAIN homeWire :
        ( /\ i < j
          /\ \/ \E k \in QueueRequests(h) : j < k
             \/ homePc[h] = "pending" /\ homeSent[h] <= HomeQueueLen )
        => homeWire[j].run = h

\* two presses during the checks of the first: the second run plays while the
\* first is between its two queue requests
C26_Witness ==
  /\ Len(homeWire) = 4
  /\ homeWire[1] = HomeRequest(1, "playUris")
  /\ homeWire[2] = HomeRequest(1, "addToQueue")
  /\ homeWire[3] = HomeRequest(2, "playUris")
  /\ homeWire[4] = HomeRequest(1, "addToQueue")

\* what the caller of refreshAccessToken does with the answer false: the
\* proactive refresh of line 242 goes on to the request, the refresh after
\* a 401 ends the call with null; neither throws
RefreshAnsweredFalse ==
  /\ refreshFor = "expiry" => apiPc' = "fetch" /\ apiResult' = apiResult
  /\ refreshFor = "401" => apiPc' = "done" /\ apiResult' = Outcome("null", <<>>)
  /\ apiResult'.kind # "throw"

TokenRequests == Positions("tokenRequest")

\* C30: refreshAccessToken keeps the stored refresh token when the token
\* response carries none; with no stored refresh token it returns false
\* and sends no request; when the exchange fails or the response has no
\* access token it returns false without throwing and leaves the access
\* token, the refresh token and the expiry as they were.
C30_RefreshFrame ==
  [][ /\ (apiPc = "refresh" /\ store.refresh = 0) =>
           /\ store' = store
           /\ TokenRequests' = TokenRequests
           /\ apiPc' # "refreshWait"
           /\ RefreshAnsweredFalse
      /\ (apiPc = "refresh" /\ store.refresh # 0) =>
           /\ apiPc' = "refreshWait"
           /\ apiTrace'[Len(apiTrace')] =
                Event("tokenRequest", TokenEndpoint, store.refresh, 0, <<>>)
      /\ \A tr \in TokenResponses :
           RefreshResponse(tr) =>
             /\ (tr.kind = "json" /\ tr.access /\ ~tr.refresh) =>
                  /\ store'.refresh = store.refresh
                  /\ store'.access # store.access
             /\ (tr.kind = "neterr" \/ ~tr.access) =>
                  /\ store' = store
                  /\ RefreshAnsweredFalse
    ]_vars

\* a refresh after a 401 whose response carried no refresh token
C30_Witness ==
  /\ Positions("tokenResponse") # {}
  /\ refreshFor = "401"
  /\ issued = 2 /\ store.access = 2 /\ store.refresh = 1

AuthPositions(kind) == { i \in DOMAIN authLog : authLog[i].ev = kind }

LastReturn == authLog[Len(authLog)]

\* the paths of exchangeCodeForToken on which a token request was sent
AfterRequest == {"requestError", "noAccessToken", "storeError", "stored"}

\* C28: the stored code verifier is deleted after every exchange attempt,
\* successful or not, so that no verifier is sent in two token requests.
C28_VerifierDeletedAfterAttempt ==
  /\ (authPc = "returned" /\ LastReturn.case \in AfterRequest) =>
       store.verifier = Absent("verifier")
  /\ \A i, j \in AuthPositions("tokenRequest") :
       i # j => authLog[i].verifier # authLog[j].verifier

\* a failed exchange left the verifier, and the redirect screen sent it again
C28_VerifierSentTwice ==
  /\ Cardinality(AuthPositions("tokenRequest")) = 2
  /\ \A i \in AuthPositions("tokenRequest") : authLog[i].verifier = 1

\* what the log holds before its last entry
BeforeReturn == IF Len(authLog) >= 2 THEN authLog[Len(authLog) - 1].ev ELSE "none"

\* the three failures of the exchange that C29 names
NamedFailures == {"noVerifier", "requestError", "noAccessToken"}

Tokens(st) == <<st.access, st.refresh, st.expiry>>

\* C29: exchangeCodeForToken returns false and leaves the stored access
\* token, refresh token and expiry as they were when no verifier is stored
\* (and then sends no token request), when the token request fails, and
\* when the response has no access token; it returns true only when an
\* access token was received and stored.
C29_ExchangeFailures ==
  authPc = "returned" =>
    /\ LastReturn.ev = "return"
    /\ LastReturn.case \in NamedFailures =>
         /\ LastReturn.value = FALSE
         /\ Tokens(store) = Tokens(authSnap)
    /\ LastReturn.case = "noVerifier" =>
         /\ BeforeReturn # "tokenRequest"
         /\ store = authSnap
    /\ LastReturn.case \in {"requestError", "noAccessToken"} =>
         BeforeReturn = "tokenRequest"
    /\ LastReturn.value = TRUE =>
         /\ authData.kind = "json" /\ authData.access
         /\ BeforeReturn = "tokenRequest"
         /\ store.access = issued
         /\ store.access # authSnap.access

\* a response without access token, with credentials already stored
C29_Witness ==
  /\ authPc = "returned"
  /\ LastReturn = AuthEvent("return", 0, FALSE, "noAccessToken")
  /\ store.access = 1 /\ store.refresh = 1 /\ store.verifier = 1

\* the step that sends a request of makeApiCall
RequestSent == apiPc = "fetch" /\ apiPc' = "await"

\* a timestamp is stored as expiry (0 is what the exchange and the refresh
\* store when the response has no lifetime, -1 stands for no key), and it
\* lies in the past
PastStoredExpiry == store.expiry > 0 /\ now > store.expiry

\* C31: no request of makeApiCall that carries the stored access token is
\* sent later than the stored expiry timestamp, unless a refresh was
\* attempted in the same call before the request was sent.
C31_NoRequestPastExpiry ==
  [][ (RequestSent /\ PastStoredExpiry) =>
        /\ apiTrace'[Len(apiTrace')].ev = "request"
        /\ Positions("refreshCall") # {} ]_vars

\* the token had expired: the request went out after a refresh attempt
C31_Witness ==
  /\ apiPc = "await"
  /\ PastStoredExpiry
  /\ refreshFor = "expiry"
  /\ Len(apiTrace) >= 2
  /\ apiTrace[1].ev = "refreshCall"
  /\ apiTrace[Len(apiTrace)].ev = "request"

\* C35: a successful refreshAccessToken at time t whose response has the
\* lifetime expires_in stores the expiry t + (expires_in - 30) * 1000, and a
\* makeApiCall made right afterwards does not refresh proactively.
C35_RefreshExpiryRule ==
  [][ /\ \A tr \in TokenResponses :
           (RefreshResponse(tr) /\ RefreshSucceeds(tr) /\ tr.expires # 0) =>
             store'.expiry = now + (tr.expires - 30) * 1000
      /\ (apiPc = "expiry" /\ issued > 1 /\ now = T0) => apiPc' # "refresh"
    ]_vars

\* the state the claim excludes: the refresh has stored the bare lifetime
C35_RawLifetimeStored ==
  /\ issued = 2 /\ store.access = 2
  /\ store.expiry = Lifetime
  /\ now = T0

\* the successful refreshes of the call so far
Refreshed == { i \in Positions("tokenResponse") : apiTrace[i].status = 200 }

\* C36: every request makeApiCall sends after a successful refresh in the
\* same call carries the access token that refresh stored, not the one read
\* before it.
C36_RequestCarriesFreshToken ==
  [][ (RequestSent /\ Refreshed # {}) =>
        apiTrace'[Len(apiTrace')].token = store.access ]_vars

\* the retry after a 401 went out with the token read at the start
C36_StaleTokenSent ==
  /\ apiPc = "await"
  /\ Refreshed # {}
  /\ apiTrace[Len(apiTrace)].ev = "request"
  /\ apiTrace[Len(apiTrace)].token = 1
  /\ store.access = 2

\* C33: when the saved-tracks endpoint refuses for want of scope the fetch
\* yields an empty list and nothing is thrown to the interface, and
\* needsReauth becomes true and stays true until a login succeeds or a
\* later saved-tracks result is not empty.
C33_ScopeRefusalSetsReauth ==
  /\ \A sc \in PageScenarios : \A items \in SavedPages :
       ScopeRefused(sc) => SavedQueryFn(SavedTracksResult(sc, items)) = Returned(<<>>)
  /\ scopeDenied => needsReauth

\* the refusal has been answered with an empty list and no flag
C33_RefusalUnnoticed ==
  /\ scopeDenied
  /\ provUser # "" /\ savedData = <<>> /\ savedError = <<>>
  /\ ~needsReauth

\* C34: whenever a user is present the combined list starts with the
\* liked-songs entity (id 'liked-songs', uri 'spotify:collection:tracks')
\* followed by the fetched playlists in their order, and a run for that
\* entity uses the context 'spotify:collection:tracks', never the uri of a
\* playlist.
C34_LikedSongsFirst ==
  provUser # "" =>
    LET all == allPlaylistsWithLiked(provUser, provPlaylists)
    IN  /\ Len(all) = Len(provPlaylists) + 1
        /\ all[1].id = "liked-songs" /\ all[1].uri = "spotify:collection:tracks"
        /\ \A i \in DOMAIN provPlaylists : all[i + 1] = provPlaylists[i]
        /\ PlaylistUri(all[1]) = "spotify:collection:tracks"
        /\ \A i \in DOMAIN provPlaylists : PlaylistUri(all[1]) # provPlaylists[i].uri
        /\ \A i \in DOMAIN provPlaylists : PlaylistUri(all[i + 1]) = provPlaylists[i].uri

\* two playlists fetched, the liked songs pressed
C34_Witness ==
  /\ provUser = "u1"
  /\ Len(provPlaylists) = 2 /\ provPlaylists[1].id = "p2"
  /\ provContext = "spotify:collection:tracks"

\* the places of qLog where a submission was answered with a status that is
\* neither 2xx nor 429
RefusedOutcomes ==
  { k \in DOMAIN qLog : /\ qLog[k].ev = "outcome"
                        /\ qLog[k].val >= 0
                        /\ qLog[k].val \notin 200..299
                        /\ qLog[k].val # 429 }

SubmitsOf(i) == { k \in DOMAIN qLog : qLog[k].ev = "submit" /\ qLog[k].i = i }

\* C40: batchQueueTracks takes a submission for failed only when addToQueue
\* throws; addToQueue returns true for every result of makeApiCall, so a
\* submission answered with a non-2xx status other than 429 counts as a
\* success, is attempted exactly once (the track is not submitted again
\* after that answer), and is followed by the progress event and the next
\* track.
C40_RefusedSubmissionIsSuccess ==
  /\ \A qs \in QueueScenarios :
       /\ (qs.token /\ ApiOutcome(qs.api).kind # "throw") => AddToQueue(qs).kind = "value"
       /\ AddToQueue(qs).kind = "throw" => (~qs.token \/ ApiOutcome(qs.api).kind = "throw")
  /\ \A k \in DOMAIN qLog :
       (qLog[k].ev = "outcome" /\ qLog[k].kind # "success") => qLog[k].val \in {-1, 429}
  /\ \A k \in RefusedOutcomes :
       /\ qLog[k].kind = "success"
       /\ \A j \in SubmitsOf(qLog[k].i) : j < k
       /\ k + 1 \in DOMAIN qLog
       /\ qLog[k + 1].ev = "progress" /\ qLog[k + 1].i = qLog[k].i
       /\ k + 2 \in DOMAIN qLog => qLog[k + 2].ev = "baseline"
       /\ k + 3 \in DOMAIN qLog =>
            /\ qLog[k + 3].ev = "submit"
            /\ qLog[k + 3].i = qLog[k].i + 1
            /\ qLog[k + 3].val = 0

\* a track answered 500 and the next track submitted
C40_Witness ==
  \E k \in RefusedOutcomes :
    /\ qLog[k].val = 500 /\ qLog[k].i = 0
    /\ k + 3 \in DOMAIN qLog /\ qLog[k + 3].ev = "submit" /\ qLog[k + 3].i = 1

\* the places of qLog where a submission found no access token (-1) or was
\* answered 401 with the refresh failing
AuthFailures ==
  { k \in DOMAIN qLog : qLog[k].ev = "outcome" /\ qLog[k].val \in {-1, 401} }

\* C32: if a call of a shuffle run receives 401 and the refresh fails, or
\* finds no access token, the run ends there: no later transfer, play or
\* queue submission of that run is issued.
C32_AuthFailureEndsRun ==
  runPc = "draining" =>
    \A k \in AuthFailures : \A j \in DOMAIN qLog : j > k => qLog[j].ev # "submit"

\* a run that went on submitting after a 401 whose refresh failed
C32_RunContinuesAfter401 ==
  /\ runPc = "draining"
  /\ \E k \in AuthFailures : /\ qLog[k].val = 401
                             /\ \E j \in DOMAIN qLog : j > k /\ qLog[j].ev = "submit"

\* a run that went on submitting after a call that found no access token
C32_RunContinuesWithoutToken ==
  /\ runPc = "draining"
  /\ \E k \in AuthFailures : /\ qLog[k].val = -1
                             /\ \E j \in DOMAIN qLog : j > k /\ qLog[j].ev = "submit"

\* the run started by handler h has terminated
RunTerminated(h) == h \in DOMAIN homePc /\ homePc[h] = "settled"

\* C37: every shuffle run started by proceedWithShuffle that terminates
\* (by returning true or false, by an error or by cancellation) eventually
\* leaves queueStatus.isQueueing false, so that the overlay is hidden once
\* the mutation is no longer pending.
C37_OverlayEventuallyHidden ==
  \A h \in 1..MaxHandlers : RunTerminated(h) ~> (~isQueueing /\ (~isPending => ~OverlayVisible))

\* a run has returned false, nothing is pending and the overlay is shown;
\* no step is left although a further handler could still start
C37_OverlayStuck ==
  /\ Len(homePc) < MaxHandlers
  /\ \E h \in DOMAIN homePc : RunTerminated(h) /\ homeSent[h] = 0
  /\ \A h \in DOMAIN homePc : homePc[h] \in {"settled", "returned"}
  /\ ~isPending
  /\ isQueueing /\ OverlayVisible
  /\ ~ENABLED NextHome

\* C38: across invocations of makeApiCall that run at once and each find the
\* token expired or each receive 401, at most one token request is in
\* flight at any time, and the same stored refresh token is never sent in
\* two token requests.
C38_SingleRefreshInFlight ==
  /\ Cardinality(RefreshInFlight) <= 1
  /\ \A c, d \in RefreshInFlight : c # d => conSent[c] # conSent[d]

\* two invocations wait for the token endpoint, each having sent the same
\* refresh token
C38_TwoRefreshesInFlight ==
  /\ {1, 2} \subseteq RefreshInFlight
  /\ conSent[1] # 0 /\ conSent[1] = conSent[2]

\* C39: once logout has completed none of the four credential keys is
\* present in the store again (no authorization flow is started here), also
\* when a token refresh was in flight at the moment logout ran.
C39_StoreStaysEmptyAfterLogout ==
  conLogout => store = NoCredentials

\* a refresh that was in flight when logout ran has stored its tokens
C39_RefreshWritesAfterLogout ==
  /\ conLogout
  /\ "access" \in Present(store) /\ "expiry" \in Present(store)
  /\ \E c \in conStale : conPc[c] # "refreshWait"

====
